---- MODULE Spec2Model ----
(***************************************************************************)
(* A model of the question-generation core of tg_anki_app:                 *)
(*   - the orchestrator generate_questions_for_files and its agent chain   *)
(*     (api/app/services/qa/pipeline.py, agents.py, types.py),             *)
(*   - the LLM invocation layer invoke (api/app/services/qa/clients.py),   *)
(*   - the deduplication engine (api/app/services/dedupe.py),              *)
(*   - item normalisation and the display rewrite (qa/utils.py).           *)
(*   - the JSON parsers and extract_first_json (qa/agents.py, qa/utils.py), *)
(*   - the job runner (worker/job_runner.py) and the topic-scoped requests *)
(*     of the API (api/app/api/deps.py and routers).                       *)
(*   - single agents called on a prepared context (qa/agents.py).          *)
(*   - the local embeddings cache (qa/clients.py), the rate limiter        *)
(*     (api/app/services/rate_limit.py) and concurrent uploads             *)
(*     (api/app/api/routers/files.py).                                     *)
(* Each part has its own specification over its own variables; the         *)
(* variables of the other parts stay unchanged.                            *)
(***************************************************************************)
EXTENDS Integers, Sequences, FiniteSets, TLC

VARIABLES
    \* --- orchestrator (Spec) ---
    pc,           \* "idle", the agent to run next, "returned" or "raised"
    env,          \* settings and collaborators' outcomes of this run
    ctx,          \* the QAContext of the run
    agents_run,   \* history: the agents whose run() has been entered, in order
    llm_calls,    \* history: number of llm.invoke calls issued by the run
    exc,          \* the exception that left generate, or "none"
    result,       \* the value generate returned: [questions, metrics]
    \* --- invoke (InvokeSpec) ---
    inv,
    \* --- dedupe_questions (DedupeSpec) ---
    dd,
    \* --- normalize_question_items / to_anki_qa (ItemsSpec) ---
    nq,
    \* --- _parse_qgen_payload / _parse_topic_list (ParseSpec) ---
    ps,
    \* --- run_generation_job (JobSpec) ---
    job,
    \* --- topic-scoped API requests (TopicSpec) ---
    web,
    \* --- extract_first_json (ExtractSpec) ---
    xj,
    \* --- an agent's run() called on a context (IndexSpec, AgentSpec) ---
    ix,
    \* --- local_embeddings and its module-level cache (EmbeddingsSpec) ---
    emb,
    \* --- check_rate_limit and the Redis counter of one key (RateLimitSpec) ---
    rl,
    \* --- upload_file / delete_file_record requests in flight (UploadSpec) ---
    up

pvars == <<pc, env, ctx, agents_run, llm_calls, exc, result>>
vars == <<pc, env, ctx, agents_run, llm_calls, exc, result, inv, dd, nq, ps, job, web, xj,
          ix, emb, rl, up>>
\* Every variable but the one a part works on.
units == <<inv, dd, nq, ps, job, web, xj, ix, emb, rl, up>>
allButInv == <<pvars, dd, nq, ps, job, web, xj, ix, emb, rl, up>>
allButDd == <<pvars, inv, nq, ps, job, web, xj, ix, emb, rl, up>>
allButNq == <<pvars, inv, dd, ps, job, web, xj, ix, emb, rl, up>>
allButPs == <<pvars, inv, dd, nq, job, web, xj, ix, emb, rl, up>>
allButJob == <<pvars, inv, dd, nq, ps, web, xj, ix, emb, rl, up>>
allButWeb == <<pvars, inv, dd, nq, ps, job, xj, ix, emb, rl, up>>
allButXj == <<pvars, inv, dd, nq, ps, job, web, ix, emb, rl, up>>
allButIx == <<pvars, inv, dd, nq, ps, job, web, xj, emb, rl, up>>
allButEmb == <<pvars, inv, dd, nq, ps, job, web, xj, ix, rl, up>>
allButRl == <<pvars, inv, dd, nq, ps, job, web, xj, ix, emb, up>>
allButUp == <<pvars, inv, dd, nq, ps, job, web, xj, ix, emb, rl>>

None == "None"

(***************************************************************************)
(* Bounds of the model.                                                    *)
(***************************************************************************)
MaxFiles == 2
MaxChunks == 1
MaxTotal == 3

Min(a, b) == IF a <= b THEN a ELSE b
\* max(0, n)
Max0(n) == IF n >= 0 THEN n ELSE 0

\* Python dict.get(key, default) on a function used as a dict.
Get(d, k, default) == IF k \in DOMAIN d THEN d[k] ELSE default
\* Python d[k] = v.
Put(d, k, v) == (k :> v) @@ d
\* Python d.setdefault(k, v).
SetDefault(d, k, v) == IF k \in DOMAIN d THEN d ELSE Put(d, k, v)
EmptyDict == <<>>

(***************************************************************************)
(* Inputs of a run.                                                        *)
(***************************************************************************)
ChunkTexts == {"cats eat fish", "dogs bark loud"}
FileIds == <<"f1", "f2", "f3">>

RECURSIVE SeqsUpTo(_, _)
SeqsUpTo(S, n) ==
    IF n = 0 THEN {<<>>}
    ELSE LET shorter == SeqsUpTo(S, n - 1)
         IN shorter \cup {Append(s, x) : s \in {t \in shorter : Len(t) = n - 1}, x \in S}

\* The chunk lists the external chunker hands over: {text, source, index}.
ChunkLists(name) ==
    {[i \in 1..Len(ts) |-> [text |-> ts[i], source |-> name, index |-> i - 1]]
        : ts \in SeqsUpTo(ChunkTexts, MaxChunks)}

\* FileInput lists: file_id unique per run.
FileLists ==
    UNION {
        {[i \in 1..n |-> [file_id |-> FileIds[i], file_name |-> FileIds[i],
                          chunks |-> cs[i]]]
            : cs \in [1..n -> ChunkLists("doc")]}
        : n \in 0..MaxFiles}

(***************************************************************************)
(* types.py: QAContext.  The dataclass has exactly these fields; there is  *)
(* no should_cancel field, and pipeline.py passes none.                    *)
(***************************************************************************)
QAContext(files, requested_total, difficulty) ==
    [files |-> files,
     requested_total |-> requested_total,
     difficulty |-> difficulty,
     llm |-> None,
     embeddings |-> None,
     stores |-> EmptyDict,
     normalized_chunks |-> EmptyDict,
     per_file_questions |-> EmptyDict,
     per_file_topics |-> EmptyDict,
     per_file_evidence |-> EmptyDict,
     metrics |-> EmptyDict]

\* Outcome of an agent's run: the context it returned, or the exception raised.
Returned(c) == [ctx |-> c, exc |-> "none"]
Raised(c, e) == [ctx |-> c, exc |-> e]

\* Python attribute lookup obj.name on a context record.
HasAttr(c, name) == name \in DOMAIN c

(***************************************************************************)
(* agents.py: _cancelled(ctx) evaluates ctx.should_cancel.  TRUE when the  *)
(* lookup raises AttributeError, which is the case for every context that  *)
(* QAContext(...) builds.                                                  *)
(***************************************************************************)
_cancelled_raises(c) == ~HasAttr(c, "should_cancel")

(***************************************************************************)
(* Python values whose dynamic type the code inspects are tagged.          *)
(***************************************************************************)
PyNone == [t |-> "none"]
PyList(xs) == [t |-> "list", v |-> xs]
PyStr(x) == [t |-> "str", s |-> x]
PyInt(x) == [t |-> "int", n |-> x]
PyBool(x) == [t |-> "bool", b |-> x]

\* bool(x): the truth value Python's "or" and "not" test.
Truthy(x) ==
    CASE x.t = "none" -> FALSE
      [] x.t = "list" -> x.v # <<>>
      [] x.t = "str" -> x.s # <<>>
      [] x.t = "int" -> x.n # 0
      [] x.t = "bool" -> x.b

(***************************************************************************)
(* agents.py: SetupAgent.run.  build_llm and build_embeddings are          *)
(* collaborators; env says whether each call succeeds in this run.         *)
(***************************************************************************)
SetupAgent_run(c) ==
    IF c.llm = None /\ ~env.build_llm_ok
    THEN Raised(c, "RuntimeError")
    ELSE
      LET c1 == [c EXCEPT !.llm = IF c.llm = None THEN "llm" ELSE c.llm]
          c2 == IF env.rag_use_embeddings
                THEN IF c1.embeddings = None
                     THEN IF env.build_embeddings_ok
                          THEN [c1 EXCEPT !.embeddings = "embeddings"]
                          ELSE [c1 EXCEPT !.metrics =
                                  Put(Put(@, "embeddings_error", "init failed"),
                                      "embeddings_disabled", TRUE)]
                     ELSE c1
                ELSE [c1 EXCEPT !.metrics = Put(@, "embeddings_disabled", TRUE)]
      IN Returned([c2 EXCEPT !.metrics = SetDefault(@, "files", Len(c.files))])

(***************************************************************************)
(* agents.py: NormalizeChunksAgent.run.  The first statement of every      *)
(* iteration over ctx.files is _cancelled(ctx); with a context that has no *)
(* should_cancel attribute that lookup raises, so no statement after it in *)
(* the loop body is ever executed.  The CASE has no other arm: a context   *)
(* with the attribute makes TLC report an error.                           *)
(***************************************************************************)
NormalizeChunksAgent_run(c) ==
    IF c.files = <<>>
    THEN Returned([c EXCEPT !.normalized_chunks = EmptyDict,
                            !.metrics = Put(@, "normalized_files", 0)])
    ELSE CASE _cancelled_raises(c) -> Raised(c, "AttributeError")

(***************************************************************************)
(* agents.py: IndexPerFileAgent.run.                                       *)
(***************************************************************************)
IndexPerFileAgent_run(c) ==
    IF c.embeddings = None
    THEN Returned([c EXCEPT !.metrics = Put(@, "indexed_files", 0)])
    ELSE IF c.files = <<>>
    THEN Returned([c EXCEPT !.metrics =
                     Put(@, "indexed_files", Cardinality(DOMAIN c.stores))])
    ELSE CASE _cancelled_raises(c) -> Raised(c, "AttributeError")

(***************************************************************************)
(* agents.py: PlannerAgent.run.                                            *)
(***************************************************************************)
PlannerAgent_run(c) ==
    IF c.llm = None
    THEN Raised(c, "AssertionError")
    ELSE IF c.files = <<>>
    THEN Returned([c EXCEPT !.per_file_topics = EmptyDict,
                            !.metrics = Put(@, "topics_per_file", EmptyDict)])
    ELSE CASE _cancelled_raises(c) -> Raised(c, "AttributeError")

(***************************************************************************)
(* agents.py: EvidenceAgent.run.                                           *)
(***************************************************************************)
EvidenceAgent_run(c) ==
    IF c.files = <<>>
    THEN Returned([c EXCEPT !.per_file_evidence = EmptyDict])
    ELSE CASE _cancelled_raises(c) -> Raised(c, "AttributeError")

(***************************************************************************)
(* agents.py: QGenAgent.run.                                               *)
(***************************************************************************)
QGenAgent_run(c) ==
    IF c.llm = None
    THEN Raised(c, "AssertionError")
    ELSE IF c.files = <<>>
    THEN Returned(c)
    ELSE CASE _cancelled_raises(c) -> Raised(c, "AttributeError")

(***************************************************************************)
(* agents.py: MixerAgent.run.  Its first statement is _cancelled(ctx).     *)
(***************************************************************************)
MixerAgent_run(c) ==
    CASE _cancelled_raises(c) -> Raised(c, "AttributeError")

(***************************************************************************)
(* dedupe.py.  A text is a sequence of characters, each a one-character    *)
(* string; a Cyrillic letter is written by its code point ("u0447").       *)
(***************************************************************************)
MaxItems == 3

T_WhatIsAIq == <<"W", "h", "a", "t", " ", "i", "s", " ", "A", "I", "?">>
T_WhatIsAI == <<"W", "h", "a", "t", " ", "i", "s", " ", "A", "I">>
T_Define == <<"D", "e", "f", "i", "n", "e", " ", "m", "a", "c", "h", "i", "n", "e", " ", "l", "e", "a", "r", "n", "i", "n", "g">>
T_a_b == <<"a", " ", "b">>
T_b_a == <<"b", " ", "a">>
T_punct == <<"?">>
T_ru1 == <<"u0447", "u0442", "u043e", " ", "u044d", "u0442", "u043e">>
T_ru2 == <<"u043a", "u0442", "u043e", " ", "u0442", "u0430", "u043c">>
T_ab == <<"a", "b">>

\* The question texts the inputs are drawn from: the three questions of
\* tests/test_dedupe.py, reordered tokens, punctuation only, two unrelated
\* two-word Russian questions, a text whose trigram set equals that of "a b",
\* and the empty text.
T_empty == <<>>
QuestionTexts ==
    {T_WhatIsAIq, T_WhatIsAI, T_Define, T_a_b, T_b_a, T_punct, T_ru1, T_ru2, T_ab,
     T_empty}

MaxDistances == {0, 3, 64}

AsciiAlnum == {"a", "b", "c", "d", "e", "f", "g", "h", "i", "j", "k", "l", "m", "n", "o", "p", "q", "r", "s", "t", "u", "v", "w", "x", "y", "z", "0", "1", "2", "3", "4", "5", "6", "7", "8", "9"}
IsSpace(c) == c \in {" ", "\t", "\n"}

\* str.lower() on one character, for the Latin and the Cyrillic alphabet.
LowerChar(c) ==
    CASE c = "A" -> "a"
      [] c = "B" -> "b"
      [] c = "C" -> "c"
      [] c = "D" -> "d"
      [] c = "E" -> "e"
      [] c = "F" -> "f"
      [] c = "G" -> "g"
      [] c = "H" -> "h"
      [] c = "I" -> "i"
      [] c = "J" -> "j"
      [] c = "K" -> "k"
      [] c = "L" -> "l"
      [] c = "M" -> "m"
      [] c = "N" -> "n"
      [] c = "O" -> "o"
      [] c = "P" -> "p"
      [] c = "Q" -> "q"
      [] c = "R" -> "r"
      [] c = "S" -> "s"
      [] c = "T" -> "t"
      [] c = "U" -> "u"
      [] c = "V" -> "v"
      [] c = "W" -> "w"
      [] c = "X" -> "x"
      [] c = "Y" -> "y"
      [] c = "Z" -> "z"
      [] c = "u0410" -> "u0430"
      [] c = "u0411" -> "u0431"
      [] c = "u0412" -> "u0432"
      [] c = "u0413" -> "u0433"
      [] c = "u0414" -> "u0434"
      [] c = "u0415" -> "u0435"
      [] c = "u0416" -> "u0436"
      [] c = "u0417" -> "u0437"
      [] c = "u0418" -> "u0438"
      [] c = "u0419" -> "u0439"
      [] c = "u041a" -> "u043a"
      [] c = "u041b" -> "u043b"
      [] c = "u041c" -> "u043c"
      [] c = "u041d" -> "u043d"
      [] c = "u041e" -> "u043e"
      [] c = "u041f" -> "u043f"
      [] c = "u0420" -> "u0440"
      [] c = "u0421" -> "u0441"
      [] c = "u0422" -> "u0442"
      [] c = "u0423" -> "u0443"
      [] c = "u0424" -> "u0444"
      [] c = "u0425" -> "u0445"
      [] c = "u0426" -> "u0446"
      [] c = "u0427" -> "u0447"
      [] c = "u0428" -> "u0448"
      [] c = "u0429" -> "u0449"
      [] c = "u042a" -> "u044a"
      [] c = "u042b" -> "u044b"
      [] c = "u042c" -> "u044c"
      [] c = "u042d" -> "u044d"
      [] c = "u042e" -> "u044e"
      [] c = "u042f" -> "u044f"
      [] OTHER -> c

Lower(s) == [i \in 1..Len(s) |-> LowerChar(s[i])]

RECURSIVE LStrip(_)
LStrip(s) == IF s # <<>> /\ IsSpace(Head(s)) THEN LStrip(Tail(s)) ELSE s

RECURSIVE RStrip(_)
RStrip(s) ==
    IF s # <<>> /\ IsSpace(s[Len(s)]) THEN RStrip(SubSeq(s, 1, Len(s) - 1)) ELSE s

\* str.strip()
Strip(s) == RStrip(LStrip(s))

\* re.sub(r"\s+", " ", s): every maximal run of whitespace becomes one space.
RECURSIVE CollapseSpaces(_)
CollapseSpaces(s) ==
    IF s = <<>> THEN <<>>
    ELSE IF IsSpace(Head(s))
         THEN <<" ">> \o CollapseSpaces(LStrip(s))
         ELSE <<Head(s)>> \o CollapseSpaces(Tail(s))

\* re.sub(r"[^a-z0-9\s]", "", s)
StripNonAsciiAlnum(s) == SelectSeq(s, LAMBDA c : c \in AsciiAlnum \/ IsSpace(c))

\* dedupe.py: normalize.  Nothing strips or collapses again after the last
\* substitution.
normalize(text) == StripNonAsciiAlnum(CollapseSpaces(Strip(Lower(text))))

\* str.split(): the maximal runs of non-whitespace characters.
RECURSIVE SplitFrom(_, _)
SplitFrom(s, cur) ==
    IF s = <<>> THEN (IF cur = <<>> THEN <<>> ELSE <<cur>>)
    ELSE IF IsSpace(Head(s))
         THEN (IF cur = <<>> THEN <<>> ELSE <<cur>>) \o SplitFrom(Tail(s), <<>>)
         ELSE SplitFrom(Tail(s), Append(cur, Head(s)))

Split(s) == SplitFrom(s, <<>>)

\* The low 64 bits of int(hashlib.md5(token).hexdigest(), 16), as the set of the
\* positions i with h & (1 << i) set, for every token of the question texts.
Md5Low64(token) ==
    CASE token = <<"a">> ->
         {0, 5, 6, 9, 10, 13, 16, 17, 18, 20, 21, 22, 24, 27, 29, 30, 33, 37, 38, 39, 40, 43, 44, 47, 48, 49, 54, 55, 56, 60, 61}
      [] token = <<"a", "b">> ->
         {5, 7, 8, 9, 11, 13, 14, 15, 20, 21, 22, 23, 25, 28, 31, 32, 33, 35, 37, 42, 43, 44, 46, 47, 54, 56, 57, 58, 59, 61}
      [] token = <<"a", "i">> ->
         {0, 3, 8, 11, 12, 18, 25, 29, 30, 31, 33, 38, 39, 41, 42, 43, 44, 47, 48, 49, 50, 51, 52, 57, 58, 59, 60, 61, 63}
      [] token = <<"b">> ->
         {0, 1, 2, 3, 7, 8, 9, 10, 12, 14, 16, 20, 21, 24, 26, 28, 29, 30, 32, 33, 34, 36, 37, 38, 42, 43, 44, 48, 49, 50, 52, 54, 55, 57, 59, 60, 61}
      [] token = <<"d", "e", "f", "i", "n", "e">> ->
         {0, 2, 6, 7, 8, 9, 11, 14, 15, 17, 18, 19, 21, 22, 23, 24, 27, 28, 29, 31, 32, 33, 34, 35, 36, 37, 38, 39, 41, 42, 43, 45, 46, 47, 48, 49, 50, 52, 58, 59}
      [] token = <<"i", "s">> ->
         {0, 3, 5, 6, 7, 8, 11, 13, 15, 16, 19, 20, 21, 25, 26, 28, 30, 31, 33, 34, 36, 37, 38, 42, 43, 46, 47, 49, 50, 54, 58, 61}
      [] token = <<"l", "e", "a", "r", "n", "i", "n", "g">> ->
         {1, 3, 4, 5, 6, 7, 9, 10, 13, 18, 19, 20, 21, 23, 25, 28, 29, 30, 32, 35, 37, 38, 39, 40, 42, 43, 45, 47, 50, 51, 53, 54, 58, 59}
      [] token = <<"m", "a", "c", "h", "i", "n", "e">> ->
         {1, 5, 6, 7, 8, 9, 10, 12, 14, 16, 18, 19, 21, 26, 27, 29, 30, 32, 33, 36, 38, 41, 42, 43, 45, 47, 49, 52, 54, 55, 56, 59, 62}
      [] token = <<"w", "h", "a", "t">> ->
         {1, 2, 6, 7, 9, 10, 11, 14, 15, 17, 18, 19, 20, 24, 25, 26, 30, 31, 32, 33, 36, 41, 43, 45, 46, 47, 49, 52, 54, 57, 60, 62, 63}

\* dedupe.py: simhash.  The 64-bit value as the set of its one-bits.
simhash(text) ==
    LET tokens == Split(normalize(text))
        vote(i) == 2 * Cardinality({k \in 1..Len(tokens) : i \in Md5Low64(tokens[k])})
                   - Len(tokens)
    IN IF tokens = <<>> THEN {} ELSE {i \in 0..63 : vote(i) > 0}

\* dedupe.py: hamming_distance.
hamming_distance(a, b) == Cardinality((a \ b) \cup (b \ a))

\* dedupe.py: _token_set.
_token_set(text) == LET tokens == Split(normalize(text))
                    IN {tokens[k] : k \in 1..Len(tokens)}

\* dedupe.py: _char_ngrams with n = 3.
_char_ngrams(text) ==
    LET compact == SelectSeq(normalize(text), LAMBDA c : c # " ")
    IN IF Len(compact) < 3
       THEN (IF compact # <<>> THEN {compact} ELSE {})
       ELSE {SubSeq(compact, i, i + 2) : i \in 1..(Len(compact) - 2)}

\* dedupe.py: _jaccard(a, b) >= num/den, in exact arithmetic (inter / union is the
\* correctly rounded quotient, so the float comparison agrees).
JaccardAtLeast(a, b, num, den) ==
    IF a = {} \/ b = {} THEN FALSE
    ELSE Cardinality(a \cap b) * den >= num * Cardinality(a \cup b)

\* The entry dedupe_questions keeps per accepted item.
SeenEntry(norm) ==
    [h |-> simhash(norm), norm |-> norm,
     tokens |-> _token_set(norm), ngrams |-> _char_ngrams(norm)]

\* Variant of DupOfEntry: the distance test written with < instead of <=.
DupOfEntry_strict(cand, existing, max_distance) ==
    /\ hamming_distance(cand.h, existing.h) < max_distance
    /\ \/ cand.norm = existing.norm
       \/ JaccardAtLeast(cand.tokens, existing.tokens, 85, 100)
       \/ JaccardAtLeast(cand.ngrams, existing.ngrams, 9, 10)

\* dedupe.py:70-79: the test of one candidate against one accepted entry.
DupOfEntry(cand, existing, max_distance) ==
    /\ hamming_distance(cand.h, existing.h) <= max_distance
    /\ \/ cand.norm = existing.norm
       \/ JaccardAtLeast(cand.tokens, existing.tokens, 85, 100)
       \/ JaccardAtLeast(cand.ngrams, existing.ngrams, 9, 10)

\* item.get("question", "")
QuestionOf(item) == IF "question" \in DOMAIN item THEN item.question ELSE <<>>

RECURSIVE DedupeLoop(_, _, _, _, _)
DedupeLoop(questions, i, seen, unique, max_distance) ==
    IF i > Len(questions) THEN unique
    ELSE LET item == questions[i]
             norm == normalize(QuestionOf(item))
             cand == SeenEntry(norm)
             is_dupe == \E k \in 1..Len(seen) : DupOfEntry(cand, seen[k], max_distance)
         IN IF norm = <<>>
            THEN DedupeLoop(questions, i + 1, seen, unique, max_distance)
            ELSE IF is_dupe
            THEN DedupeLoop(questions, i + 1, seen, unique, max_distance)
            ELSE DedupeLoop(questions, i + 1, Append(seen, cand),
                            Append(unique, item), max_distance)

Reverse(q) == [i \in 1..Len(q) |-> q[Len(q) + 1 - i]]

\* Variant of dedupe_questions: unique.insert(0, item) instead of append.
dedupe_questions_prepend(questions, max_distance) ==
    Reverse(DedupeLoop(questions, 1, <<>>, <<>>, max_distance))

\* Variant of dedupe_questions: a duplicate is removed from the list being
\* iterated, so the item after a removed one is never examined and stays.
RECURSIVE DedupeLoopSkip(_, _, _, _, _)
DedupeLoopSkip(questions, i, seen, unique, max_distance) ==
    IF i > Len(questions) THEN unique
    ELSE LET item == questions[i]
             norm == normalize(QuestionOf(item))
             cand == SeenEntry(norm)
             is_dupe == \E k \in 1..Len(seen) : DupOfEntry(cand, seen[k], max_distance)
         IN IF norm = <<>> \/ is_dupe
            THEN IF i + 1 <= Len(questions)
                 THEN DedupeLoopSkip(questions, i + 2, seen,
                                     Append(unique, questions[i + 1]), max_distance)
                 ELSE unique
            ELSE DedupeLoopSkip(questions, i + 1, Append(seen, cand),
                                Append(unique, item), max_distance)

dedupe_questions_skip(questions, max_distance) ==
    DedupeLoopSkip(questions, 1, <<>>, <<>>, max_distance)

\* dedupe.py: dedupe_questions.
dedupe_questions(questions, max_distance) ==
    DedupeLoop(questions, 1, <<>>, <<>>, max_distance)


(***************************************************************************)
(* agents.py: VerifierAgent.run.  No cancellation poll; every file gets    *)
(* its (possibly empty) candidate list rewritten with normalised tags.     *)
(***************************************************************************)
S_unverified == <<"u", "n", "v", "e", "r", "i", "f", "i", "e", "d">>

\* Variant of VerifyItem: the tag is appended whatever the sources are.
VerifyItem_always(item) ==
    LET tags0 == IF Truthy(item.tags) THEN item.tags ELSE PyList(<<>>)
        tags == IF tags0.t = "str" THEN Split(tags0.s)
                ELSE IF tags0.t = "list" THEN tags0.v
                ELSE <<>>
    IN [item EXCEPT !.tags = PyList(Append(tags, S_unverified))]

VerifyItem(item) ==
    LET tags0 == IF Truthy(item.tags) THEN item.tags ELSE PyList(<<>>)
        tags == IF tags0.t = "str" THEN Split(tags0.s)
                ELSE IF tags0.t = "list" THEN tags0.v
                ELSE <<>>
    IN [item EXCEPT !.tags =
          PyList(IF ~Truthy(item.sources) THEN Append(tags, S_unverified) ELSE tags)]

RECURSIVE VerifierLoop(_, _)
VerifierLoop(c, i) ==
    IF i > Len(c.files) THEN c
    ELSE LET fid == c.files[i].file_id
             items == Get(c.per_file_questions, fid, <<>>)
             cleaned == [k \in 1..Len(items) |-> VerifyItem(items[k])]
         IN VerifierLoop([c EXCEPT !.per_file_questions = Put(@, fid, cleaned)], i + 1)

VerifierAgent_run(c) == Returned(VerifierLoop(c, 1))

(***************************************************************************)
(* pipeline.py: generate_questions_for_files.                              *)
(***************************************************************************)
Pipeline ==
    <<"Setup", "NormalizeChunks", "IndexPerFile", "Planner",
      "Evidence", "QGen", "Verifier", "Mixer">>

PipelineInit ==
    /\ pc = "idle"
    /\ env \in [rag_use_embeddings : BOOLEAN,
                build_llm_ok : BOOLEAN,
                build_embeddings_ok : BOOLEAN,
                cancel_requested : BOOLEAN]
    /\ ctx = None
    /\ agents_run = <<>>
    /\ llm_calls = 0
    /\ exc = "none"
    /\ result = None

\* pipeline.py:22: the context is built from the three arguments only.
Generate ==
    /\ pc = "idle"
    /\ \E files \in FileLists, n \in 1..MaxTotal, difficulty \in {"medium"} :
          ctx' = QAContext(files, n, difficulty)
    /\ pc' = "Setup"
    /\ UNCHANGED <<env, agents_run, llm_calls, exc, result, units>>

\* A loop that would catch the agent's exception and go on with the next agent.
AgentStep_swallow(name, r, next) ==
    /\ pc = name
    /\ agents_run' = Append(agents_run, name)
    /\ ctx' = r.ctx
    /\ pc' = next
    /\ exc' = IF r.exc = "none" THEN exc ELSE r.exc
    /\ UNCHANGED <<env, llm_calls, result, units>>

\* pipeline.py:34-35: one iteration of "for agent in pipeline: ctx = agent.run(ctx)".
\* An exception leaves generate; nothing catches it.
AgentStep(name, r, next) ==
    /\ pc = name
    /\ agents_run' = Append(agents_run, name)
    /\ IF r.exc = "none"
       THEN /\ ctx' = r.ctx
            /\ pc' = next
            /\ exc' = exc
       ELSE /\ ctx' = ctx
            /\ pc' = "raised"
            /\ exc' = r.exc
    /\ UNCHANGED <<env, llm_calls, result, units>>

RunSetup == pc = "Setup" /\ AgentStep("Setup", SetupAgent_run(ctx), "NormalizeChunks")
RunNormalizeChunks ==
    pc = "NormalizeChunks"
    /\ AgentStep("NormalizeChunks", NormalizeChunksAgent_run(ctx), "IndexPerFile")
RunIndexPerFile ==
    pc = "IndexPerFile" /\ AgentStep("IndexPerFile", IndexPerFileAgent_run(ctx), "Planner")
RunPlanner == pc = "Planner" /\ AgentStep("Planner", PlannerAgent_run(ctx), "Evidence")
RunEvidence == pc = "Evidence" /\ AgentStep("Evidence", EvidenceAgent_run(ctx), "QGen")
RunQGen == pc = "QGen" /\ AgentStep("QGen", QGenAgent_run(ctx), "Verifier")
RunVerifier == pc = "Verifier" /\ AgentStep("Verifier", VerifierAgent_run(ctx), "Mixer")

\* pipeline.py:35-38 for the last agent: run it, then pop "_result" and return.
RunMixer ==
    /\ pc = "Mixer"
    /\ agents_run' = Append(agents_run, "Mixer")
    /\ LET r == MixerAgent_run(ctx)
       IN IF r.exc = "none"
          THEN /\ ctx' = [r.ctx EXCEPT !.metrics =
                            [k \in DOMAIN @ \ {"_result"} |-> @[k]]]
               /\ result' = [questions |-> Get(r.ctx.metrics, "_result", <<>>),
                             metrics |-> ctx'.metrics]
               /\ pc' = "returned"
               /\ exc' = exc
          ELSE /\ ctx' = ctx
               /\ result' = result
               /\ pc' = "raised"
               /\ exc' = r.exc
    /\ UNCHANGED <<env, llm_calls, units>>

PipelineNext ==
    \/ Generate
    \/ RunSetup
    \/ RunNormalizeChunks
    \/ RunIndexPerFile
    \/ RunPlanner
    \/ RunEvidence
    \/ RunQGen
    \/ RunVerifier
    \/ RunMixer

Idle == "idle"
Init ==
    /\ PipelineInit
    /\ inv = Idle /\ dd = Idle /\ nq = Idle /\ ps = Idle /\ job = Idle /\ web = Idle
    /\ xj = Idle /\ ix = Idle /\ emb = Idle /\ rl = Idle /\ up = Idle
Next == PipelineNext
Spec == Init /\ [][Next]_vars

(***************************************************************************)
(* DedupeSpec: dedupe_questions applied to a list of items, and applied    *)
(* again to its own output.  Every item carries a distinct answer, so two  *)
(* items of a list are never the same value.                               *)
(***************************************************************************)
PipelineIdle ==
    /\ pc = "idle"
    /\ env = Idle
    /\ ctx = None
    /\ agents_run = <<>>
    /\ llm_calls = 0
    /\ exc = "none"
    /\ result = None

DedupeInputs ==
    {[i \in 1..Len(ts) |-> [question |-> ts[i], answer |-> i]]
        : ts \in SeqsUpTo(QuestionTexts, MaxItems)}

DedupeInit ==
    /\ PipelineIdle
    /\ inv = Idle /\ nq = Idle /\ ps = Idle /\ job = Idle /\ web = Idle /\ xj = Idle /\ ix = Idle /\ emb = Idle /\ rl = Idle /\ up = Idle
    /\ dd \in [pc : {"input"}, questions : DedupeInputs, max_distance : MaxDistances,
               out : {<<>>}, again : {<<>>}]

\* deduped = dedupe_questions(questions, max_distance)
DedupeCall ==
    /\ dd.pc = "input"
    /\ dd' = [dd EXCEPT !.pc = "once",
                        !.out = dedupe_questions(dd.questions, dd.max_distance)]
    /\ UNCHANGED allButDd

\* dedupe_questions(deduped, max_distance)
DedupeAgain ==
    /\ dd.pc = "once"
    /\ dd' = [dd EXCEPT !.pc = "twice",
                        !.again = dedupe_questions(dd.out, dd.max_distance)]
    /\ UNCHANGED allButDd

DedupeNext == DedupeCall \/ DedupeAgain
DedupeSpec == DedupeInit /\ [][DedupeNext]_vars

(***************************************************************************)
(* Properties of the orchestrator (Spec).                                  *)
(***************************************************************************)
RunEnded == pc \in {"returned", "raised"}

\* C1: in every run of generate_questions_for_files whose LLM client can be
\* built, the eight agents Setup, NormalizeChunks, IndexPerFile, Planner,
\* Evidence, QGen, Verifier, Mixer have each run exactly once, in that order,
\* when the run ends.
C1_AllAgentsRunOnceInOrder ==
    (RunEnded /\ env.build_llm_ok) => agents_run = Pipeline

\* C2: a run whose caller has already requested cancellation ends by
\* returning, without raising and without a single LLM invocation.
C2_CancelledRunReturnsWithoutRaising ==
    (RunEnded /\ env.cancel_requested /\ env.build_llm_ok)
        => (pc = "returned" /\ exc = "none" /\ llm_calls = 0)

\* The number of candidates the run holds for its files when the Mixer starts.
RECURSIVE CandidateCountFrom(_, _)
CandidateCountFrom(c, i) ==
    IF i > Len(c.files) THEN 0
    ELSE Len(Get(c.per_file_questions, c.files[i].file_id, <<>>))
            + CandidateCountFrom(c, i + 1)

\* C3: once the Mixer has run, the list it stored under the reserved key and
\* the orchestrator lifted out has length min(N, A) for requested_total = N
\* and some number A of surviving candidates, which is at most the number of
\* candidates the run holds; in particular the list is there and has at most
\* N items.
C3_MixerStoresMinOfRequestedAndAvailable ==
    (\E i \in 1..Len(agents_run) : agents_run[i] = "Mixer") =>
        /\ pc = "returned"
        /\ \E A \in 0..CandidateCountFrom(ctx, 1) :
              Len(result.questions) = Min(ctx.requested_total, A)

(***************************************************************************)
(* Properties of dedupe_questions (DedupeSpec).                            *)
(***************************************************************************)
NormOf(j) == normalize(QuestionOf(dd.questions[j]))
Kept(j) == \E k \in 1..Len(dd.out) : dd.out[k].answer = j
\* What dedupe_questions computes for each input item, and whether item j is
\* a duplicate of item i by the test of dedupe.py:70-79.  The formulas bind
\* the entries once (e \in {Entries}) and read them from there.
Entries == [j \in 1..Len(dd.questions) |-> SeenEntry(NormOf(j))]
NearDup(e, i, j) == DupOfEntry(e[j], e[i], dd.max_distance)
Positions == 1..Len(dd.questions)

\* C6: the output of dedupe_questions is a subsequence of its input: no longer
\* than the input, made of input items only, in their original relative order;
\* and of two items that are duplicates of each other the later one is never
\* kept beside the earlier one.
C6_OutputIsSubsequence ==
    dd.pc = "once" =>
      \A e \in {Entries} :
        /\ Len(dd.out) <= Len(dd.questions)
        /\ \A k \in 1..Len(dd.out) :
              /\ dd.out[k].answer \in Positions
              /\ dd.out[k] = dd.questions[dd.out[k].answer]
        /\ \A k \in 1..(Len(dd.out) - 1) : dd.out[k].answer < dd.out[k + 1].answer
        /\ \A i, j \in Positions :
              (i < j /\ e[i].norm # <<>> /\ e[j].norm # <<>> /\ Kept(i) /\ NearDup(e, i, j))
                  => ~Kept(j)

\* A three-item input whose middle item was dropped as a duplicate of the first.
C6_Witness ==
    /\ dd.pc = "once"
    /\ Len(dd.questions) = 3
    /\ Len(dd.out) = 2
    /\ dd.out[1].answer = 1
    /\ dd.out[2].answer = 3
    /\ NormOf(2) # <<>>

\* C7: dedupe_questions is idempotent: applied to its own output, with the same
\* max_distance, it returns that output.
C7_Idempotent == dd.pc = "twice" => dd.again = dd.out

\* The second application ran on an output that had lost an item and kept two.
C7_Witness ==
    /\ dd.pc = "twice"
    /\ Len(dd.out) = 2
    /\ Len(dd.questions) = 3
    /\ \A j \in Positions : NormOf(j) # <<>>

IsTestExample ==
    /\ Len(dd.questions) = 3
    /\ dd.questions[1].question = T_WhatIsAIq
    /\ dd.questions[2].question = T_WhatIsAI
    /\ dd.questions[3].question = T_Define

MaxAttempts == 3

W(w) == [k |-> "word", w |-> w]
N(n) == [k |-> "num", n |-> n]
Dot == [k |-> "dot"]
Bs == [k |-> "backslash"]

M_timeout == <<W("Read"), W("timed"), W("out")>>
M_retry_2 == <<W("retry_delay"), W(":"), N(2)>>
M_retry_75 == <<W("retry"), W("in"), N(75), W("s")>>
M_retry_2_5 == <<W("retry_delay"), W(":"), N(2), Dot, N(5)>>
M_retry_0_5 == <<W("Please"), W("retry"), W("in"), N(0), Dot, N(5), W("s")>>
M_code_retry_7 == <<W("code"), N(429), W("retry_delay"), W("seconds"), N(7)>>
M_retry_later == <<W("retry"), W("later")>>
M_retry_bs == <<W("Retry"), N(2), Bs, W("x"), N(5)>>
M_retry_0 == <<W("retry_delay"), W(":"), N(0)>>
\* The text OpenRouterChatClient.invoke raises for an HTTP 402 response.
M_payment == <<W("OpenRouter"), W("error"), N(402), W("Insufficient"), W("credits")>>

ErrorMessages ==
    {M_timeout, M_retry_2, M_retry_75, M_retry_2_5, M_retry_0_5, M_code_retry_7,
     M_retry_later, M_retry_bs, M_retry_0, M_payment}

\* What llm.invoke returns: text, or an object with list content.
Contents == {PyStr("text"), PyList(<<1, 2>>)}

\* A word in which "retry" occurs (the pattern is case-insensitive).
IsRetryWord(tok) == tok.k = "word" /\ tok.w \in {"retry", "Retry", "retry_delay"}

\* clients.py:186,198: retry_re.search(str(exc)) with
\* r"retry(?:_delay)?[^0-9]*([0-9]+(?:\\.[0-9]+)?)".  The match starts at the
\* leftmost "retry" that has a digit run somewhere after it; group 1 is the first
\* digit run after it, extended only by a backslash, any one character and
\* another digit run (in the raw string "\\." is a literal backslash followed by
\* any character, not a decimal point).
RetryMatch(msg) ==
    LET starts == {i \in 1..Len(msg) :
                      IsRetryWord(msg[i]) /\ \E j \in (i + 1)..Len(msg) : msg[j].k = "num"}
    IN IF starts = {} THEN [matched |-> FALSE]
       ELSE LET i == CHOOSE x \in starts : \A y \in starts : x <= y
                j == CHOOSE x \in (i + 1)..Len(msg) :
                        msg[x].k = "num" /\ \A y \in (i + 1)..(x - 1) : msg[y].k # "num"
                ext == /\ j + 3 <= Len(msg)
                       /\ msg[j + 1].k = "backslash"
                       /\ msg[j + 3].k = "num"
            IN [matched |-> TRUE, digits |-> msg[j].n, extended |-> ext]

\* clients.py:197-203: wait_seconds, in tenths of a second.  float() of a group
\* that holds a backslash raises ValueError, which leaves 0.0.
WaitTenths(msg) ==
    LET m == RetryMatch(msg)
    IN IF ~m.matched THEN 0
       ELSE IF m.extended THEN 0
       ELSE 10 * m.digits

\* clients.py:204-205: time.sleep(min(wait_seconds, 60.0)) when wait_seconds > 0;
\* 0 stands for no sleep at all.
SleptTenths(msg) == IF WaitTenths(msg) > 0 THEN Min(WaitTenths(msg), 600) ELSE 0

\* Variant of AttemptsLeft: range(attempts + 1).
AttemptsLeft_one_more(v) == v.done <= v.attempts

\* clients.py:187: for _ in range(attempts).
AttemptsLeft(v) == v.done < v.attempts

InvokeInit ==
    /\ PipelineIdle
    /\ dd = Idle /\ nq = Idle /\ ps = Idle /\ job = Idle /\ web = Idle /\ xj = Idle /\ ix = Idle /\ emb = Idle /\ rl = Idle /\ up = Idle
    /\ inv \in [pc : {"loop"}, attempts : 0..MaxAttempts, done : {0}, calls : {0},
                last : {PyNone}, log : {<<>>}, value : {PyNone}, error : {PyNone},
                cancel_requested : BOOLEAN]

\* clients.py:188-193: llm.invoke(prompt) returns; invoke returns its content,
\* as JSON text when it is a dict or a list.
ClientReturns ==
    /\ inv.pc = "loop"
    /\ AttemptsLeft(inv)
    /\ \E content \in Contents :
          inv' = [inv EXCEPT !.pc = "returned",
                             !.calls = @ + 1,
                             !.done = @ + 1,
                             !.value = IF content.t = "list"
                                       THEN [json_dumps |-> content.v]
                                       ELSE [str |-> content.s]]
    /\ UNCHANGED allButInv

\* clients.py:194-205: llm.invoke(prompt) raises; the error is kept, the hinted
\* wait is slept, and the loop goes on.
ClientRaises ==
    /\ inv.pc = "loop"
    /\ AttemptsLeft(inv)
    /\ \E msg \in ErrorMessages :
          inv' = [inv EXCEPT !.calls = @ + 1,
                             !.done = @ + 1,
                             !.last = [msg |-> msg],
                             !.log = Append(@, [msg |-> msg, slept |-> SleptTenths(msg)])]
    /\ UNCHANGED allButInv

\* clients.py:206: raise RuntimeError(f"... after {attempts} attempts: {last}").
Exhausted ==
    /\ inv.pc = "loop"
    /\ ~AttemptsLeft(inv)
    /\ inv' = [inv EXCEPT !.pc = "raised",
                          !.error = [type |-> "RuntimeError", attempts |-> inv.attempts,
                                     last |-> inv.last]]
    /\ UNCHANGED allButInv

\* The caller decides to cancel while invoke runs.  invoke has no parameter
\* and reads no state through which it could learn of it (clients.py:184).
CallerCancels ==
    /\ inv.pc = "loop"
    /\ ~inv.cancel_requested
    /\ inv' = [inv EXCEPT !.cancel_requested = TRUE]
    /\ UNCHANGED allButInv

InvokeNext == ClientReturns \/ ClientRaises \/ Exhausted \/ CallerCancels
InvokeSpec == InvokeInit /\ [][InvokeNext]_vars

(***************************************************************************)
(* Properties of invoke (InvokeSpec).                                      *)
(***************************************************************************)
\* C9: invoke calls the client at most attempts times; it returns on the first
\* successful call, every call before it having failed and none following it;
\* and when all attempts calls have failed it raises an error that carries the
\* last client error.
C9_AtMostAttemptsCalls ==
    /\ inv.calls <= inv.attempts
    /\ inv.pc = "returned" => (inv.calls = Len(inv.log) + 1 /\ inv.value # PyNone)
    /\ inv.pc = "raised" =>
          /\ inv.calls = inv.attempts
          /\ Len(inv.log) = inv.attempts
          /\ inv.error.last = IF inv.attempts = 0 THEN PyNone
                              ELSE [msg |-> inv.log[inv.attempts].msg]

\* The client failed twice with "retry_delay: 2" and succeeded on the third call.
C9_Witness ==
    /\ inv.pc = "returned"
    /\ inv.calls = 3
    /\ Len(inv.log) = 2
    /\ inv.log[1].msg = M_retry_2
    /\ inv.log[2].msg = M_retry_2

\* The delay a message hints at, in tenths of a second: the number written after
\* the retry word, with its decimal fraction.
HintedTenths(msg) ==
    LET i == CHOOSE x \in 1..Len(msg) : IsRetryWord(msg[x])
        j == CHOOSE x \in (i + 1)..Len(msg) :
                msg[x].k = "num" /\ \A y \in (i + 1)..(x - 1) : msg[y].k # "num"
    IN IF j + 2 <= Len(msg) /\ msg[j + 1].k = "dot" /\ msg[j + 2].k = "num"
       THEN 10 * msg[j].n + msg[j + 2].n
       ELSE 10 * msg[j].n

\* The messages that carry a retry hint in decimal notation.
HintMessages ==
    {M_retry_2, M_retry_75, M_retry_2_5, M_retry_0_5, M_code_retry_7, M_retry_0}

\* C10: after a failed attempt whose message carries a retry hint of N seconds,
\* invoke waits min(N, 60) seconds; no single wait is longer than 60 seconds.
C10_WaitIsHintCappedAt60 ==
    \A k \in 1..Len(inv.log) :
        /\ inv.log[k].slept <= 600
        /\ inv.log[k].msg \in HintMessages
              => inv.log[k].slept = Min(HintedTenths(inv.log[k].msg), 600)

(***************************************************************************)
(* qa/utils.py: item normalisation and the display rewrite.  An item is a  *)
(* record (a dict); a value that may be None, a list, a str, an int or a   *)
(* bool is tagged (PyNone, PyList, PyStr, PyInt, PyBool); a str is a       *)
(* sequence of characters.                                                 *)
(***************************************************************************)
MaxRawItems == 2

S_open == <<"o", "p", "e", "n">>
S_mcq == <<"m", "c", "q">>
S_tf == <<"t", "f">>
S_MCQ_padded == <<" ", "M", "C", "Q", " ">>
S_essay == <<"e", "s", "s", "a", "y">>
S_None == <<"N", "o", "n", "e">>
A_42 == <<"4", "2">>
A_True == <<"T", "r", "u", "e">>
A_Verno == <<"u0412", "u0435", "u0440", "u043d", "u043e">>
A_Neverno == <<"u041d", "u0435", "u0432", "u0435", "u0440", "u043d", "u043e">>
A_Srednee == <<"u0421", "u0440", "u0435", "u0434", "u043d", "u0435", "u0435">>
O_a == <<"P", "a", "r", "i", "s">>
O_b == <<"R", "o", "m", "e">>
O_c == <<"O", "s", "l", "o">>
O_d == <<"B", "e", "r", "n">>
O_blank == <<" ">>
D_2 == <<"2">>
D_7 == <<"7">>
D_x == <<"x">>
Q_long ==
    <<"W", "h", "i", "c", "h", " ", "v", "a", "l", "u", "e", " ", "m", "i",
      "n", "i", "m", "i", "z", "e", "s", " ", "t", "h", "e", " ", "e", "x",
      "p", "e", "c", "t", "e", "d", " ", "s", "q", "u", "a", "r", "e", "d",
      " ", "e", "r", "r", "o", "r", " ", "o", "f", " ", "a", " ", "c", "o",
      "n", "s", "t", "a", "n", "t", " ", "p", "r", "e", "d", "i", "c", "t",
      "o", "r", "?">>
Q_long_mse ==
    <<"W", "h", "i", "c", "h", " ", "c", "o", "n", "s", "t", "a", "n", "t",
      " ", "m", "i", "n", "i", "m", "i", "z", "e", "s", " ", "t", "h", "e",
      " ", "m", "s", "e", " ", "o", "f", " ", "a", " ", "p", "r", "e", "d",
      "i", "c", "t", "o", "r", " ", "t", "h", "a", "t", " ", "i", "g", "n",
      "o", "r", "e", "s", " ", "i", "t", "s", " ", "i", "n", "p", "u", "t",
      "?">>
Q_blank == <<" ", " ">>
Q_tf_prefixed ==
    <<"u0412", "u0435", "u0440", "u043d", "u043e", " ", "u043b", "u0438",
      " ", "u044d", "u0442", "u043e", "?">>
TfWrapHead ==
    <<"u0412", "u0435", "u0440", "u043d", "u043e", " ", "u043b", "u0438",
      ",", " ", "u0447", "u0442", "u043e", " ">>

\* utils.py:26-34: _GENERIC_ANSWER_PATTERNS, each anchored to the whole answer
\* (settings.generic_answer_patterns is empty by default and adds none).
GenericAnswers ==
    {<<"u043a", "u043e", "u043d", "u0441", "u0442", "u0430", "u043d",
       "u0442", "u0430">>,
     <<"u043a", "u043e", "u043d", "u0441", "u0442", "u0430", "u043d",
       "u0442", "u043d", "u044b", "u0439", " ", "u043e", "u0442", "u0432",
       "u0435", "u0442">>,
     <<"u043e", "u043f", "u0442", "u0438", "u043c", "u0430", "u043b",
       "u044c", "u043d", "u044b", "u0439", " ", "u043e", "u0442", "u0432",
       "u0435", "u0442">>,
     <<"u043e", "u043f", "u0442", "u0438", "u043c", "u0430", "u043b",
       "u044c", "u043d", "u044b", "u0439", " ", "u043a", "u043e", "u043d",
       "u0441", "u0442", "u0430", "u043d", "u0442", "u043d", "u044b",
       "u0439", " ", "u043e", "u0442", "u0432", "u0435", "u0442">>,
     <<"u0441", "u0440", "u0435", "u0434", "u043d", "u0435", "u0435">>,
     <<"u0441", "u0440", "u0435", "u0434", "u043d", "u0435", "u0435", " ",
       "u0437", "u043d", "u0430", "u0447", "u0435", "u043d", "u0438",
       "u0435">>,
     <<"u0441", "u0440", "u0435", "u0434", "u043d", "u0435", "u0435", " ",
       "u0430", "u0440", "u0438", "u0444", "u043c", "u0435", "u0442",
       "u0438", "u0447", "u0435", "u0441", "u043a", "u043e", "u0435">>}

_TF_PREFIXES ==
    {<<"u0432", "u0435", "u0440", "u043d", "u043e", " ", "u043b", "u0438">>,
     <<"u043f", "u0440", "u0430", "u0432", "u0434", "u0430", " ", "u043b",
       "u0438">>,
     <<"u0432", "u0441", "u0435", "u0433", "u0434", "u0430", " ", "u043b",
       "u0438">>,
     <<"u043c", "u043e", "u0436", "u0435", "u0442", " ", "u043b", "u0438">>,
     <<"u044f", "u0432", "u043b", "u044f", "u0435", "u0442", "u0441",
       "u044f", " ", "u043b", "u0438">>}

ShortAnswerMarkers ==
    {<<"m", "s", "e">>,
     <<"r", "m", "s", "e">>,
     <<"m", "a", "e">>,
     <<"r", "2">>,
     <<"u043a", "u043e", "u043d", "u0441", "u0442", "u0430", "u043d",
       "u0442">>,
     <<"u0441", "u0440", "u0435", "u0434", "u043d">>}

TrueWords ==
    {<<"t", "r", "u", "e">>,
     <<"u0432", "u0435", "u0440", "u043d", "u043e">>,
     <<"u0438", "u0441", "u0442", "u0438", "u043d", "u0430">>,
     <<"u0434", "u0430">>}

FalseWords ==
    {<<"f", "a", "l", "s", "e">>,
     <<"u043d", "u0435", "u0432", "u0435", "u0440", "u043d", "u043e">>,
     <<"u043b", "u043e", "u0436", "u044c">>,
     <<"u043d", "u0435", "u0442">>}

TfAnswers ==
    {<<"u0432", "u0435", "u0440", "u043d", "u043e">>,
     <<"u043d", "u0435", "u0432", "u0435", "u0440", "u043d", "u043e">>}

CyrillicLower ==
    {"u0430", "u0431", "u0432", "u0433", "u0434", "u0435", "u0436", "u0437",
     "u0438", "u0439", "u043a", "u043b", "u043c", "u043d", "u043e", "u043f",
     "u0440", "u0441", "u0442", "u0443", "u0444", "u0445", "u0446", "u0447",
     "u0448", "u0449", "u044a", "u044b", "u044c", "u044d", "u044e", "u044f"}

Digits == {"0", "1", "2", "3", "4", "5", "6", "7", "8", "9"}
DigitVal(c) ==
    CASE c = "0" -> 0 [] c = "1" -> 1 [] c = "2" -> 2 [] c = "3" -> 3
      [] c = "4" -> 4 [] c = "5" -> 5 [] c = "6" -> 6 [] c = "7" -> 7
      [] c = "8" -> 8 [] c = "9" -> 9

\* str.isdigit()
IsDigit(s) == s # <<>> /\ \A i \in 1..Len(s) : s[i] \in Digits

\* int(s) for a string of digits
RECURSIVE IntOf(_)
IntOf(s) == IF s = <<>> THEN 0 ELSE 10 * IntOf(SubSeq(s, 1, Len(s) - 1)) + DigitVal(s[Len(s)])

\* str(x) for the values an item's "type" and "answer" hold.
Str(x) == CASE x.t = "str" -> x.s
            [] x.t = "none" -> S_None

\* isinstance(x, int): bool is a subclass of int.
IsInt(x) == x.t \in {"int", "bool"}
IntVal(x) == IF x.t = "bool" THEN (IF x.b THEN 1 ELSE 0) ELSE x.n

\* "if isinstance(ci, str) and ci.isdigit(): ci = int(ci)"
DigitsToInt(ci) == IF ci.t = "str" /\ IsDigit(ci.s) THEN PyInt(IntOf(ci.s)) ELSE ci

\* s.startswith(prefix)
StartsWith(s, prefix) == Len(s) >= Len(prefix) /\ SubSeq(s, 1, Len(prefix)) = prefix

\* s.rstrip("?")
RECURSIVE RStripQuestionMarks(_)
RStripQuestionMarks(s) ==
    IF s # <<>> /\ s[Len(s)] = "?" THEN RStripQuestionMarks(SubSeq(s, 1, Len(s) - 1)) ELSE s

\* s.split(","), each part stripped, the empty parts left out.
RECURSIVE SplitCommaFrom(_, _)
SplitCommaFrom(s, cur) ==
    LET part == IF Strip(cur) = <<>> THEN <<>> ELSE <<Strip(cur)>>
    IN IF s = <<>> THEN part
       ELSE IF Head(s) = "," THEN part \o SplitCommaFrom(Tail(s), <<>>)
       ELSE SplitCommaFrom(Tail(s), Append(cur, Head(s)))

\* utils.py: normalize_text.  \w with re.UNICODE keeps letters of every
\* alphabet, digits and the underscore.
WordChars == AsciiAlnum \cup {"_"} \cup CyrillicLower
normalize_text(text) ==
    SelectSeq(CollapseSpaces(Strip(Lower(text))), LAMBDA c : c \in WordChars \/ IsSpace(c))

\* re.sub(r"^[^a-zа-я0-9]+", "", s)
RECURSIVE StripLeadingNonAlnum(_)
StripLeadingNonAlnum(s) ==
    IF s # <<>> /\ Head(s) \notin (AsciiAlnum \cup CyrillicLower)
    THEN StripLeadingNonAlnum(Tail(s)) ELSE s

\* utils.py: starts_with_tf_prefix
starts_with_tf_prefix(question) ==
    IF question = <<>> THEN FALSE
    ELSE LET cleaned == StripLeadingNonAlnum(Lower(Strip(question)))
         IN \E prefix \in _TF_PREFIXES : StartsWith(cleaned, prefix)

\* utils.py: is_generic_answer, under settings.filter_generic_answers = filter.
\* After normalize_text a word of the question is a run of non-space
\* characters, so the \b...\b search looks for a word equal to a marker.
is_generic_answer(answer, question, filter) ==
    IF ~filter THEN FALSE
    ELSE LET answer_norm == normalize_text(answer)
         IN IF answer_norm = <<>> THEN TRUE
            ELSE IF answer_norm \in TfAnswers THEN FALSE
            ELSE IF answer_norm \in GenericAnswers
            THEN LET question_norm == normalize_text(question)
                     words == Split(question_norm)
                 IN Len(question_norm) >= 60
                    /\ ~\E i \in 1..Len(words) : words[i] \in ShortAnswerMarkers
            ELSE FALSE

\* utils.py:306, the range test on correct_index; the variant comes first.
McqIndexInRange_upto4(ci) == 0 <= ci /\ ci <= 4

McqIndexInRange(ci) == 0 <= ci /\ ci < 4

\* utils.py:296-309: whether an item of type "mcq" stays one.
McqStays(options, correct_index) ==
    LET opts == IF Truthy(options) THEN options.v ELSE <<>>
        ci == DigitsToInt(correct_index)
    IN Len(opts) = 4 /\ IsInt(ci) /\ McqIndexInRange(IntVal(ci))

\* utils.py:271-294: the record normalize_question_items builds for one item
\* whose stripped question is not empty, and its mcq rule (296-309).
NormalizedRecord(item, difficulty) ==
    LET q_type == Strip(Lower(Str(item.type)))
        tags0 == IF Truthy(item.tags) THEN item.tags ELSE PyList(<<>>)
        tags == IF tags0.t = "str" THEN Split(tags0.s)
                ELSE IF tags0.t = "list" THEN tags0.v
                ELSE <<>>
        sources0 == IF Truthy(item.sources) THEN item.sources ELSE PyList(<<>>)
        sources == IF sources0.t = "str" THEN SplitCommaFrom(sources0.s, <<>>)
                   ELSE sources0.v
        kept_tags == SelectSeq(tags, LAMBDA x : Strip(x) # <<>>)
        options == IF item.options.t = "list" THEN item.options ELSE PyNone
        demote == q_type = S_mcq /\ ~McqStays(options, item.correct_index)
    IN [type |-> IF demote THEN S_open ELSE q_type,
        question |-> Strip(Str(item.question)),
        answer |-> Strip(Str(item.answer)),
        difficulty |-> difficulty,
        tags |-> [i \in 1..Len(kept_tags) |-> Strip(Lower(kept_tags[i]))],
        sources |-> sources,
        evidence |-> item.evidence,
        options |-> IF demote THEN PyNone ELSE options,
        correct_index |-> IF demote THEN PyNone ELSE item.correct_index]

\* utils.py: normalize_question_items, items i..Len(items).
RECURSIVE NormalizeFrom(_, _, _, _)
NormalizeFrom(items, i, difficulty, filter) ==
    IF i > Len(items) THEN <<>>
    ELSE LET item == items[i]
             rest == NormalizeFrom(items, i + 1, difficulty, filter)
         IN IF Strip(Str(item.question)) = <<>> THEN rest
            ELSE LET rec == NormalizedRecord(item, difficulty)
                 IN IF is_generic_answer(rec.answer, rec.question, filter) THEN rest
                    ELSE <<rec>> \o rest

normalize_question_items(items, difficulty, filter) ==
    NormalizeFrom(items, 1, difficulty, filter)

\* Variant of WithOpenTag: the tag list is left as it is.
WithOpenTag_never(tags) == tags

\* "if 'open' not in tags: tags.append('open')"
WithOpenTag(tags) ==
    IF \E i \in 1..Len(tags) : tags[i] = S_open THEN tags ELSE Append(tags, S_open)

\* utils.py: to_anki_qa, on a record normalize_question_items produced.
\* item.pop removes the keys "options" and "correct_index".
to_anki_qa(item) ==
    LET q_type == Lower(IF item.type = <<>> THEN S_open ELSE item.type)
        question == Strip(item.question)
        answer == Strip(item.answer)
        tags == item.tags
    IN IF q_type = S_mcq
       THEN LET options == IF Truthy(item.options) THEN item.options ELSE PyList(<<>>)
                correct_index == DigitsToInt(item.correct_index)
                picks == /\ options.t = "list"
                         /\ IsInt(correct_index)
                         /\ 0 <= IntVal(correct_index)
                         /\ IntVal(correct_index) < Len(options.v)
                candidate == IF picks THEN Strip(options.v[IntVal(correct_index) + 1])
                             ELSE <<>>
                rest == [k \in DOMAIN item \ {"options", "correct_index"} |-> item[k]]
            IN [rest EXCEPT !.type = S_open,
                            !.question = question,
                            !.answer = IF candidate # <<>> THEN candidate ELSE answer,
                            !.tags = WithOpenTag(SelectSeq(tags, LAMBDA t : t # S_mcq))]
       ELSE IF q_type = S_tf
       THEN LET answer_lower == Lower(answer)
            IN [item EXCEPT !.type = S_open,
                            !.question = IF question # <<>> /\ ~starts_with_tf_prefix(question)
                                         THEN TfWrapHead \o RStripQuestionMarks(question) \o <<"?">>
                                         ELSE question,
                            !.answer = IF answer_lower \in TrueWords THEN A_Verno
                                       ELSE IF answer_lower \in FalseWords THEN A_Neverno
                                       ELSE answer,
                            !.tags = WithOpenTag(SelectSeq(tags, LAMBDA t : t # S_tf))]
       ELSE [item EXCEPT !.question = question, !.answer = answer, !.tags = tags]

(***************************************************************************)
(* ItemsSpec: normalize_question_items applied to a list of raw items as   *)
(* the LLM returns them, then to_anki_qa applied to every record, as       *)
(* MixerAgent.run does (agents.py:388 and 408).  The first item of a list  *)
(* ranges over every combination of type, options, correct_index, answer   *)
(* and tags below and over a few items that exercise the generic-answer    *)
(* filter; the items after it come from FillerItems.  The evidence of an   *)
(* item holds its position in the list, which tells the items apart.       *)
(***************************************************************************)
RawTypes ==
    {PyStr(S_open), PyStr(S_mcq), PyStr(S_tf), PyStr(S_MCQ_padded), PyStr(S_essay),
     PyStr(<<>>), PyNone}
RawOptions ==
    {PyNone, PyStr(O_a), PyList(<<O_a, O_b, O_c>>), PyList(<<O_a, O_b, O_c, O_d>>),
     PyList(<<O_blank, O_b, O_c, O_d>>)}
RawIndexes ==
    {PyNone, PyInt(-1), PyInt(0), PyInt(3), PyInt(4), PyBool(TRUE),
     PyStr(D_2), PyStr(D_7), PyStr(D_x)}
RawAnswers == {PyStr(<<>>), PyStr(A_42), PyStr(A_True)}
RawTags == {PyList(<<>>), PyList(<<S_MCQ_padded, S_tf>>)}

RawItem(type, question, answer, options, correct_index, tags) ==
    [type |-> type, question |-> PyStr(question), answer |-> answer,
     options |-> options, correct_index |-> correct_index, tags |-> tags,
     sources |-> PyStr(<<"d", "o", "c", ",", " ">>), evidence |-> PyList(<<>>)]

CombinedItems ==
    {RawItem(t, T_WhatIsAIq, a, o, ci, tg) :
        t \in RawTypes, a \in RawAnswers, o \in RawOptions, ci \in RawIndexes,
        tg \in RawTags}

GenericItems ==
    {RawItem(PyStr(S_open), q, PyStr(a), PyNone, PyNone, PyList(<<>>)) :
        q \in {Q_long, Q_long_mse, T_WhatIsAIq, Q_blank, Q_tf_prefixed},
        a \in {A_Srednee, A_Verno}}
    \cup {RawItem(PyStr(S_tf), Q_tf_prefixed, PyStr(A_Neverno), PyNone, PyNone, PyList(<<>>))}

FillerItems ==
    {RawItem(PyStr(S_mcq), T_Define, PyStr(A_42), PyList(<<O_a, O_b, O_c, O_d>>),
             PyInt(1), PyList(<<>>)),
     RawItem(PyStr(S_open), T_a_b, PyStr(<<>>), PyNone, PyNone, PyList(<<>>))}

Numbered(items) == [i \in 1..Len(items) |-> [items[i] EXCEPT !.evidence = PyList(<<i>>)]]

RawLists ==
    {<<>>} \cup
    {Numbered(<<first>> \o rest) :
        first \in CombinedItems \cup GenericItems,
        rest \in SeqsUpTo(FillerItems, MaxRawItems - 1)}

ItemsInit ==
    /\ PipelineIdle
    /\ inv = Idle /\ dd = Idle /\ ps = Idle /\ job = Idle /\ web = Idle /\ xj = Idle /\ ix = Idle /\ emb = Idle /\ rl = Idle /\ up = Idle
    /\ nq \in [pc : {"raw"}, raw : RawLists, difficulty : {"medium"},
               filter_generic_answers : BOOLEAN, items : {<<>>}, final : {<<>>}]

\* all_items = normalize_question_items(all_items, ctx.difficulty)
NormalizeCall ==
    /\ nq.pc = "raw"
    /\ nq' = [nq EXCEPT !.pc = "normalized",
                        !.items = normalize_question_items(nq.raw, nq.difficulty,
                                                           nq.filter_generic_answers)]
    /\ UNCHANGED allButNq

\* all_items = [to_anki_qa(item) for item in all_items]
ToAnkiCall ==
    /\ nq.pc = "normalized"
    /\ nq' = [nq EXCEPT !.pc = "final",
                        !.final = [k \in 1..Len(nq.items) |-> to_anki_qa(nq.items[k])]]
    /\ UNCHANGED allButNq

ItemsNext == NormalizeCall \/ ToAnkiCall
ItemsSpec == ItemsInit /\ [][ItemsNext]_vars

\* The raw item a normalized record came from, and what the claims say of it.
RawOf(rec) == nq.raw[rec.evidence.v[1]]
SaysMcq(raw) == Strip(Lower(Str(raw.type))) = S_mcq
HasFourOptions(raw) == raw.options.t = "list" /\ Len(raw.options.v) = 4

\* An index that is an integer in [0, 4).
IndexIsIntIn0To4(raw) ==
    raw.correct_index.t = "int" /\ 0 <= raw.correct_index.n /\ raw.correct_index.n < 4

\* An index the code takes for one: an integer in [0, 4), a bool (True is 1,
\* False is 0), or a string of digits whose value is in [0, 4).
IndexAccepted(raw) ==
    LET ci == raw.correct_index
    IN \/ ci.t = "int" /\ 0 <= ci.n /\ ci.n < 4
       \/ ci.t = "bool"
       \/ ci.t = "str" /\ IsDigit(ci.s) /\ IntOf(ci.s) < 4

(***************************************************************************)
(* C4: every item of the final list has type "open", whatever type string  *)
(* the LLM returned.                                                       *)
(***************************************************************************)
C4_EveryFinalItemIsOpen ==
    nq.pc = "final" => \A k \in 1..Len(nq.final) : nq.final[k].type = S_open

C11_PaymentErrorAbortsRetries ==
    \A i \in 1..Len(inv.log) : inv.log[i].msg = M_payment => inv.calls = i

(***************************************************************************)
(* agents.py: _parse_qgen_payload and _parse_topic_list.  A model response *)
(* is given by what safe_json_loads makes of it: a value, or Invalid when  *)
(* safe_json_loads raises.  A dict is tagged "dict" and holds its keys.    *)
(***************************************************************************)
MaxJsonRetries == 2

PyDict(d) == [t |-> "dict", d |-> d]
Invalid == [t |-> "invalid"]

One_q == <<"q">>
Blank == <<" ">>

\* What safe_json_loads(raw) yields for the responses the parsers are tried on.
ParsedResponses ==
    {Invalid,
     PyStr(One_q),
     PyList(<<>>),
     PyList(<<One_q>>),
     PyList(<<Blank>>),
     PyDict([items |-> PyList(<<One_q>>)]),
     PyDict([questions |-> PyList(<<One_q>>)]),
     PyDict([topics |-> PyList(<<One_q>>)]),
     PyDict([items |-> PyList(<<>>), data |-> PyList(<<One_q>>)]),
     PyDict([note |-> PyStr(One_q)])}

\* d.get(k): None when the key is missing.
DictGet(d, k) == IF k \in DOMAIN d THEN d[k] ELSE PyNone

\* "data.get(k1) or data.get(k2) or data.get(k3)"
FirstTruthy(d, k1, k2, k3) ==
    IF Truthy(DictGet(d, k1)) THEN DictGet(d, k1)
    ELSE IF Truthy(DictGet(d, k2)) THEN DictGet(d, k2)
    ELSE DictGet(d, k3)

\* agents.py:45-50 and 77-86: the try block of one attempt.  found says
\* whether the parser returns from inside it, value is what it returns.
ParseAttempt(fn, parsed) ==
    IF parsed.t = "invalid" THEN [found |-> FALSE, value |-> <<>>]
    ELSE LET data == IF parsed.t = "dict"
                     THEN FirstTruthy(parsed.d, "items",
                                      IF fn = "qgen" THEN "questions" ELSE "topics", "data")
                     ELSE parsed
         IN IF data.t # "list" THEN [found |-> FALSE, value |-> <<>>]
            ELSE IF fn = "qgen" THEN [found |-> TRUE, value |-> data.v]
            ELSE LET kept == SelectSeq(data.v, LAMBDA x : Strip(x) # <<>>)
                     topics == [i \in 1..Len(kept) |-> Strip(kept[i])]
                 IN [found |-> topics # <<>>, value |-> topics]

\* clients.py:184: the parameters of invoke, and whether a call that passes
\* these keyword arguments raises TypeError before the body of invoke runs.
InvokeParameters == {"llm", "prompt", "attempts"}
InvokeRaisesTypeError(keywords) == ~(keywords \subseteq InvokeParameters)

\* agents.py:60 and 96: invoke(llm, repair_prompt, should_cancel=should_cancel)
RepairCallKeywords == {"should_cancel"}

\* agents.py:39-41 and 71-73: max_retries = max(0, settings.llm_json_retries);
\* the loop runs for attempt in range(max_retries + 1).
LoopEnds(v) == v.attempt > Max0(v.llm_json_retries)

ParseInit ==
    /\ PipelineIdle
    /\ inv = Idle /\ dd = Idle /\ nq = Idle /\ job = Idle /\ web = Idle /\ xj = Idle /\ ix = Idle /\ emb = Idle /\ rl = Idle /\ up = Idle
    /\ ps \in [fn : {"qgen", "topics"}, pc : {"loop"}, parsed : ParsedResponses,
               llm_json_retries : (-1)..MaxJsonRetries,
               should_cancel : {"None", "true", "false"},
               attempt : {0}, repairs : {0}, failed : {0},
               result : {PyNone}, error : {"none"}]

\* agents.py:42-53 and 74-89: one pass of the loop up to the repair call.
ParseTry ==
    /\ ps.pc = "loop"
    /\ ~LoopEnds(ps)
    /\ IF ps.should_cancel = "true"
       THEN ps' = [ps EXCEPT !.pc = "returned", !.result = PyList(<<>>)]
       ELSE LET r == ParseAttempt(ps.fn, ps.parsed)
            IN IF r.found
               THEN ps' = [ps EXCEPT !.pc = "returned", !.result = PyList(r.value)]
               ELSE IF ps.attempt < Max0(ps.llm_json_retries)
               THEN ps' = [ps EXCEPT !.pc = "repair", !.failed = @ + 1]
               ELSE ps' = [ps EXCEPT !.attempt = @ + 1, !.failed = @ + 1]
    /\ UNCHANGED allButPs

\* agents.py:54-60 and 90-96: the repair prompt is handed to invoke.  The call
\* passes should_cancel, which invoke does not take, so TypeError is raised at
\* the call and leaves the parser; the CASE has no other arm.
RepairCall ==
    /\ ps.pc = "repair"
    /\ CASE InvokeRaisesTypeError(RepairCallKeywords) ->
            ps' = [ps EXCEPT !.pc = "raised", !.error = "TypeError"]
    /\ UNCHANGED allButPs

\* agents.py:61-62 and 97-98: the loop is over; warn and return [].
ParseGiveUp ==
    /\ ps.pc = "loop"
    /\ LoopEnds(ps)
    /\ ps' = [ps EXCEPT !.pc = "returned", !.result = PyList(<<>>)]
    /\ UNCHANGED allButPs

ParseNext == ParseTry \/ RepairCall \/ ParseGiveUp
ParseSpec == ParseInit /\ [][ParseNext]_vars

(***************************************************************************)
(* C12: for a response that cannot be parsed into a list the parser sends  *)
(* at most llm_json_retries repair prompts through invoke, and it always   *)
(* returns: an empty list when every parse failed; it never raises.        *)
(***************************************************************************)
C12_UnparsableOutputDegradesToEmpty ==
    /\ ps.pc # "raised"
    /\ ps.repairs <= Max0(ps.llm_json_retries)
    /\ (ps.pc = "returned" /\ ps.failed > 0 /\ ps.should_cancel # "true")
          => ps.result = PyList(<<>>)

(***************************************************************************)
(* Properties of the degraded paths of a run (Spec).                       *)
(***************************************************************************)
\* Setup has run in a run whose embeddings client cannot be built.
EmbeddingsInitFailed ==
    /\ env.build_llm_ok /\ env.rag_use_embeddings /\ ~env.build_embeddings_ok
    /\ Len(agents_run) >= 1 /\ pc # "Setup"

\* What SetupAgent.run leaves behind after such a failure.
SetupDegraded ==
    /\ ctx.embeddings = None
    /\ "embeddings_error" \in DOMAIN ctx.metrics
    /\ Get(ctx.metrics, "embeddings_disabled", FALSE) = TRUE

\* C13: a failure while Setup builds the embeddings client does not abort the
\* run: the error text is in metrics, embeddings_disabled is true, the
\* embeddings handle stays unset, and when the run ends all eight agents have
\* run.
C13_EmbeddingsInitFailureIsNotFatal ==
    EmbeddingsInitFailed =>
        /\ SetupDegraded
        /\ RunEnded => agents_run = Pipeline

(***************************************************************************)
(* IndexPerFileAgent.run called on a context, as the orchestrator calls it *)
(* after Setup and NormalizeChunks.  The vector-store backend is a         *)
(* collaborator: store_fails is the set of files for which                 *)
(* Chroma.from_documents raises in this call.                              *)
(***************************************************************************)
\* agents.py:118-129: normalized_chunks holds the files with a chunk.
NormalizedChunksOf(files) ==
    [id \in {files[i].file_id : i \in {j \in 1..Len(files) : files[j].chunks # <<>>}}
        |-> (CHOOSE f \in {files[i] : i \in 1..Len(files)} : f.file_id = id).chunks]

IndexContexts ==
    {[QAContext(files, n, "medium") EXCEPT
         !.llm = "llm",
         !.embeddings = e,
         !.normalized_chunks = NormalizedChunksOf(files),
         !.metrics = Put(Put(EmptyDict, "files", Len(files)),
                         "normalized_files",
                         Cardinality(DOMAIN NormalizedChunksOf(files)))]
        : files \in FileLists, n \in 1..MaxTotal, e \in {None, "embeddings"}}

IndexInit ==
    /\ \E c \in IndexContexts :
          \E fails \in SUBSET {c.files[i].file_id : i \in 1..Len(c.files)} :
             ix = [pc |-> "call", arg |-> c, ctx |-> c, store_fails |-> fails,
                   exc |-> "none"]
    /\ pc = Idle /\ env = Idle /\ ctx = Idle /\ agents_run = Idle
    /\ llm_calls = Idle /\ exc = Idle /\ result = Idle
    /\ inv = Idle /\ dd = Idle /\ nq = Idle /\ ps = Idle /\ job = Idle
    /\ web = Idle /\ xj = Idle /\ emb = Idle /\ rl = Idle /\ up = Idle

\* agent.run(ctx): the context comes back, or an exception leaves the agent.
IndexCall ==
    /\ ix.pc = "call"
    /\ LET r == IndexPerFileAgent_run(ix.ctx)
       IN ix' = [ix EXCEPT !.pc = IF r.exc = "none" THEN "returned" ELSE "raised",
                           !.ctx = r.ctx,
                           !.exc = r.exc]
    /\ UNCHANGED allButIx

IndexNext == IndexCall
IndexSpec == IndexInit /\ [][IndexNext]_vars

\* The files, in order, that the loop of agents.py:139-177 would hand to
\* the backend: those with normalized chunks.
IndexedCandidates(c) ==
    {i \in 1..Len(c.files) : c.files[i].file_id \in DOMAIN c.normalized_chunks}
\* The backend raises while some file is indexed.
BackendRaisesInCall ==
    /\ ix.arg.embeddings # None
    /\ \E i \in IndexedCandidates(ix.arg) : ix.arg.files[i].file_id \in ix.store_fails
FirstFailing ==
    CHOOSE i \in IndexedCandidates(ix.arg) :
        /\ ix.arg.files[i].file_id \in ix.store_fails
        /\ \A j \in IndexedCandidates(ix.arg) :
              ix.arg.files[j].file_id \in ix.store_fails => i <= j

(***************************************************************************)
(* C14: when the embedding backend raises while IndexPerFile indexes some  *)
(* file, the agent returns without raising, the embeddings handle is       *)
(* unset, embeddings_disabled is set in metrics, and no file from the      *)
(* failing one on has a store.                                             *)
(***************************************************************************)
C14_IndexingFailureDisablesEmbeddings ==
    (ix.pc # "call" /\ BackendRaisesInCall) =>
        /\ ix.pc = "returned"
        /\ ix.ctx.embeddings = None
        /\ Get(ix.ctx.metrics, "embeddings_disabled", FALSE) = TRUE
        /\ \A i \in IndexedCandidates(ix.arg) :
              ix.arg.files[i].file_id \in DOMAIN ix.ctx.stores => i < FirstFailing

(***************************************************************************)
(* Properties of the orchestrator's return value (Spec).                   *)
(***************************************************************************)
\* A cancelled run of a caller whose LLM client can be built has ended.
CancelledRunEnded == RunEnded /\ env.cancel_requested /\ env.build_llm_ok

\* C15: every run that returns, and every cancelled run is one of them,
\* returns a list of at most requested_total items together with the run's
\* metrics map, from which the reserved key "_result" is gone.
C15_ReturnsBoundedListAndCleanMetrics ==
    (pc = "returned" \/ CancelledRunEnded) =>
        /\ pc = "returned"
        /\ Len(result.questions) <= ctx.requested_total
        /\ "_result" \notin DOMAIN result.metrics
        /\ result.metrics = ctx.metrics

\* The outcome of running the agent called name on context c.
AgentRun(name, c) ==
    CASE name = "Setup" -> SetupAgent_run(c)
      [] name = "NormalizeChunks" -> NormalizeChunksAgent_run(c)
      [] name = "IndexPerFile" -> IndexPerFileAgent_run(c)
      [] name = "Planner" -> PlannerAgent_run(c)
      [] name = "Evidence" -> EvidenceAgent_run(c)
      [] name = "QGen" -> QGenAgent_run(c)
      [] name = "Verifier" -> VerifierAgent_run(c)
      [] name = "Mixer" -> MixerAgent_run(c)
AgentNames == {Pipeline[i] : i \in 1..Len(Pipeline)}

\* C16: the orchestrator catches no agent exception: the step in which an
\* agent raises ends the run with that same exception and without a result,
\* and no step (so no later agent) follows a raise.
C16_AgentExceptionLeavesGenerate ==
    [][/\ pc # "raised"
       /\ (pc \in AgentNames /\ AgentRun(pc, ctx).exc # "none") =>
             /\ pc' = "raised"
             /\ exc' = AgentRun(pc, ctx).exc
             /\ result' = None
             /\ agents_run' = Append(agents_run, pc)]_vars
C16_Witness ==
    /\ pc = "raised"
    /\ exc = "AttributeError"
    /\ agents_run = <<"Setup", "NormalizeChunks">>
    /\ result = None

(***************************************************************************)
(* worker/job_runner.py: run_generation_job, together with the cancel      *)
(* request of api/routers/jobs.py.  job.row is the job's database row;     *)
(* every refresh and every commit of the worker is a step of its own, so   *)
(* a cancel request can fall between any two of them.  The collaborators   *)
(* (text extraction, generate_questions_for_files, export_apkg, the        *)
(* webhook) are taken at their interface: each call returns or raises.     *)
(***************************************************************************)
_STAGE_PROGRESS ==
    [extracting |-> 15, chunking |-> 30, generating |-> 65, deduping |-> 80,
     exporting |-> 90, done |-> 100]
_stage_progress(stage) ==
    IF stage \in DOMAIN _STAGE_PROGRESS THEN _STAGE_PROGRESS[stage] ELSE 0

\* _update_job: setattr for every keyword, then commit.
_update_job(row, kwargs) ==
    [k \in DOMAIN row |-> IF k \in DOMAIN kwargs THEN kwargs[k] ELSE row[k]]
\* _is_cancelled: refresh the row, then test its status.
_is_cancelled(row) == row.status = "cancelled"

\* create_job / retry_job: the row of a job that was just enqueued.
QueuedRow ==
    [status |-> "queued", stage |-> "queued", progress |-> 0,
     error_message |-> None, result_paths |-> None]

\* Per stored file: what read_encrypted_file and extract_text give.
ExtractOutcomes == {"text", "blank", "raises"}
JobFileLists == SeqsUpTo(ExtractOutcomes, MaxFiles)

\* str(exc) of the exceptions the collaborators raise.
E_extract == "Unsupported file type"
E_generate == "'QAContext' object has no attribute 'should_cancel'"
E_export == "export failed"
E_webhook == "webhook unreachable"

\* _build_file_inputs: a payload without chunks (chunk_text of a text
\* without words is []) gives no FileInput.
RECURSIVE _build_file_inputs(_)
_build_file_inputs(payloads) ==
    IF payloads = <<>> THEN <<>>
    ELSE IF Head(payloads) = "blank" THEN _build_file_inputs(Tail(payloads))
    ELSE <<Head(payloads)>> \o _build_file_inputs(Tail(payloads))

\* What generate_questions_for_files can hand back for a requested count:
\* a list the Mixer has deduplicated and cut to the count, or an exception.
JobQuestion(t, a) == [question |-> t, answer |-> a, type |-> "open"]
GenLists ==
    {<<>>,
     <<JobQuestion(T_WhatIsAIq, 1)>>,
     <<JobQuestion(T_WhatIsAI, 2)>>,
     <<JobQuestion(T_Define, 3)>>,
     <<JobQuestion(T_WhatIsAIq, 1), JobQuestion(T_Define, 3)>>}
GenerateOutcomes(count) ==
    {[exc |-> "none", questions |-> g] : g \in {l \in GenLists : Len(l) <= count}}
        \cup {[exc |-> E_generate, questions |-> <<>>]}

RECURSIVE Concat(_)
Concat(lists) == IF lists = <<>> THEN <<>> ELSE Head(lists) \o Concat(Tail(lists))

\* dedupe, then top the list up from the undeduplicated one when it is
\* shorter than requested_total, then cut (job_runner.py:193-196 and
\* utils.py:321-325).
DedupeAndFill(questions, requested_total) ==
    LET deduped == dedupe_questions(questions, 3)
        filled == IF Len(deduped) < requested_total
                  THEN deduped \o questions ELSE deduped
    IN SubSeq(filled, 1, Min(requested_total, Len(filled)))

\* utils.py: merge_per_file_outputs.
merge_per_file_outputs(outputs, requested_total) ==
    DedupeAndFill(Concat(outputs), requested_total)

\* job_runner.py:198-201: item.pop("answer"), and correct_index of an mcq.
StripAnswer(item) ==
    LET gone == {"answer"} \cup (IF item.type = "mcq" THEN {"correct_index"} ELSE {})
    IN [k \in DOMAIN item \ gone |-> item[k]]

JobInit ==
    /\ job \in [pc : {"start"},
                row : {QueuedRow},
                files : JobFileLists,
                number_of_questions : 1..MaxTotal,
                mode : {"merged", "per_file"},
                include_answers : BOOLEAN,
                payloads : {<<>>},
                questions : {<<>>},
                exported : {<<>>},
                export_called : {FALSE},
                ran : {FALSE},
                raised : {"none"},
                api : {"none"}]
    /\ pc = Idle /\ env = Idle /\ ctx = Idle /\ agents_run = Idle
    /\ llm_calls = Idle /\ exc = Idle /\ result = Idle
    /\ inv = Idle /\ dd = Idle /\ nq = Idle /\ ps = Idle
    /\ web = Idle /\ xj = Idle /\ ix = Idle /\ emb = Idle /\ rl = Idle /\ up = Idle

\* job_runner.py:107-109, 126-128, 152-154, 188-190, 203-205.
JobCheckCancelled(at, next) ==
    /\ job.pc = at
    /\ job' = [job EXCEPT !.pc = IF _is_cancelled(job.row) THEN "ended" ELSE next]
    /\ UNCHANGED allButJob

\* A collaborator raised: control goes to the except clause of line 232.
JobRaise(text) == job' = [job EXCEPT !.pc = "handler", !.raised = text]

\* job_runner.py:111-124.
JobLoadFiles ==
    /\ job.pc = "load"
    /\ IF job.files = <<>>
       THEN job' = [job EXCEPT
                      !.pc = "ended",
                      !.row = _update_job(@, [status |-> "failed", stage |-> "done",
                                  progress |-> 100,
                                  error_message |-> "No files available for generation"])]
       ELSE job' = [job EXCEPT !.pc = "check_generation"]
    /\ UNCHANGED allButJob

\* job_runner.py:130-136.
JobSetRunning ==
    /\ job.pc = "set_running"
    /\ job' = [job EXCEPT
                 !.pc = "extract",
                 !.ran = TRUE,
                 !.row = _update_job(@, [status |-> "running", stage |-> "extracting",
                                         progress |-> _stage_progress("extracting")])]
    /\ UNCHANGED allButJob

\* job_runner.py:138-142.
JobExtract ==
    /\ job.pc = "extract"
    /\ IF \E i \in 1..Len(job.files) : job.files[i] = "raises"
       THEN JobRaise(E_extract)
       ELSE job' = [job EXCEPT !.pc = "set_chunking", !.payloads = job.files]
    /\ UNCHANGED allButJob

\* job_runner.py:144.
JobSetChunking ==
    /\ job.pc = "set_chunking"
    /\ job' = [job EXCEPT
                 !.pc = "check_llm",
                 !.row = _update_job(@, [stage |-> "chunking",
                                         progress |-> _stage_progress("chunking")])]
    /\ UNCHANGED allButJob

\* job_runner.py:156-169.
JobBuildInputs ==
    /\ job.pc = "build_inputs"
    /\ IF _build_file_inputs(job.payloads) = <<>>
       THEN job' = [job EXCEPT
                      !.pc = "ended",
                      !.row = _update_job(@, [status |-> "failed", stage |-> "done",
                                  progress |-> 100,
                                  error_message |-> "No extractable text"])]
       ELSE job' = [job EXCEPT
                      !.pc = "generate",
                      !.row = _update_job(@, [stage |-> "generating",
                                  progress |-> _stage_progress("generating")])]
    /\ UNCHANGED allButJob

\* job_runner.py:171-186.
JobGenerate ==
    /\ job.pc = "generate"
    /\ LET requested_total == job.number_of_questions
           file_inputs == _build_file_inputs(job.payloads)
       IN IF job.mode = "per_file"
          THEN \E outs \in [1..Len(file_inputs) ->
                              GenerateOutcomes(Max0(requested_total \div Len(file_inputs) - 3) + 3)] :
                 IF \E i \in 1..Len(file_inputs) : outs[i].exc # "none"
                 THEN JobRaise(E_generate)
                 ELSE job' = [job EXCEPT
                                !.pc = "check_after_llm",
                                !.questions = merge_per_file_outputs(
                                    [i \in 1..Len(file_inputs) |-> outs[i].questions],
                                    requested_total)]
          ELSE \E out \in GenerateOutcomes(requested_total) :
                 IF out.exc # "none"
                 THEN JobRaise(out.exc)
                 ELSE job' = [job EXCEPT !.pc = "check_after_llm",
                                         !.questions = out.questions]
    /\ UNCHANGED allButJob

\* job_runner.py:192-201.
JobDedupe ==
    /\ job.pc = "deduping"
    /\ LET questions == DedupeAndFill(job.questions, job.number_of_questions)
       IN job' = [job EXCEPT
                    !.pc = "check_export",
                    !.row = _update_job(@, [stage |-> "deduping",
                                            progress |-> _stage_progress("deduping")]),
                    !.questions = IF job.include_answers THEN questions
                                  ELSE [i \in 1..Len(questions) |->
                                           StripAnswer(questions[i])]]
    /\ UNCHANGED allButJob

\* job_runner.py:207.
JobSetExporting ==
    /\ job.pc = "set_exporting"
    /\ job' = [job EXCEPT
                 !.pc = "export",
                 !.row = _update_job(@, [stage |-> "exporting",
                                         progress |-> _stage_progress("exporting")])]
    /\ UNCHANGED allButJob

\* job_runner.py:209-211: export_apkg(apkg_path, topic.title, questions).
JobExport ==
    /\ job.pc = "export"
    /\ \E ok \in BOOLEAN :
          IF ok
          THEN job' = [job EXCEPT !.pc = "commit_done",
                                  !.exported = job.questions,
                                  !.export_called = TRUE]
          ELSE job' = [job EXCEPT !.pc = "handler", !.raised = E_export,
                                  !.exported = job.questions,
                                  !.export_called = TRUE]
    /\ UNCHANGED allButJob

\* job_runner.py:213-218.
JobCommitDone ==
    /\ job.pc = "commit_done"
    /\ job' = [job EXCEPT
                 !.pc = "webhook",
                 !.row = _update_job(@, [result_paths |-> "apkg", status |-> "done",
                                         stage |-> "done", progress |-> 100])]
    /\ UNCHANGED allButJob

\* job_runner.py:221-231: no webhook configured, or the post returns or raises.
JobWebhook ==
    /\ job.pc = "webhook"
    /\ \E outcome \in {"unset", "ok", "raises"} :
          IF outcome = "raises"
          THEN JobRaise(E_webhook)
          ELSE job' = [job EXCEPT !.pc = "ended"]
    /\ UNCHANGED allButJob

\* A handler that records the error text but leaves the status as it is.
JobHandler_keeps_status ==
    /\ job.pc = "handler"
    /\ job' = [job EXCEPT
                 !.pc = "ended",
                 !.row = _update_job(@, [stage |-> "done", progress |-> 100,
                                         error_message |-> job.raised])]
    /\ UNCHANGED allButJob

\* job_runner.py:232-241.
JobHandler ==
    /\ job.pc = "handler"
    /\ job' = [job EXCEPT
                 !.pc = "ended",
                 !.row = _update_job(@, [status |-> "failed", stage |-> "done",
                                         progress |-> 100,
                                         error_message |-> job.raised])]
    /\ UNCHANGED allButJob

\* jobs.py:95-103: the request loads the job and tests its status.
CancelLoad ==
    /\ job.api = "none"
    /\ job' = [job EXCEPT !.api = IF job.row.status \in {"done", "failed", "cancelled"}
                                  THEN "answered" ELSE "open"]
    /\ UNCHANGED allButJob

\* jobs.py:104-110.
CancelWrite ==
    /\ job.api = "open"
    /\ job' = [job EXCEPT
                 !.api = "answered",
                 !.row = _update_job(@, [status |-> "cancelled", stage |-> "done",
                                         progress |-> 100,
                                         error_message |-> "Cancelled by user"])]
    /\ UNCHANGED allButJob

JobNext ==
    \/ JobCheckCancelled("start", "load")
    \/ JobLoadFiles
    \/ JobCheckCancelled("check_generation", "set_running")
    \/ JobSetRunning
    \/ JobExtract
    \/ JobSetChunking
    \/ JobCheckCancelled("check_llm", "build_inputs")
    \/ JobBuildInputs
    \/ JobGenerate
    \/ JobCheckCancelled("check_after_llm", "deduping")
    \/ JobDedupe
    \/ JobCheckCancelled("check_export", "set_exporting")
    \/ JobSetExporting
    \/ JobExport
    \/ JobCommitDone
    \/ JobWebhook
    \/ JobHandler
    \/ CancelLoad
    \/ CancelWrite
JobSpec == JobInit /\ [][JobNext]_vars

\* C17: when a step of run_generation_job raises after the job went to
\* running (extraction, the pipeline, export), control reaches the handler,
\* whose write leaves the job with status "failed", stage "done", progress
\* 100 and the exception text as error_message; and a job whose run ended
\* after such an exception is never in status "running".
C17_FailureAfterRunningEndsFailed ==
    [][/\ job'.raised # job.raised => (job.ran /\ job'.pc = "handler")
       /\ (job.pc = "handler" /\ job'.pc # "handler") =>
             /\ job'.pc = "ended"
             /\ job'.row.status = "failed"
             /\ job'.row.stage = "done"
             /\ job'.row.progress = 100
             /\ job'.row.error_message = job.raised
       /\ (job'.pc = "ended" /\ job'.raised # "none") =>
             job'.row.status # "running"]_vars
C17_Witness ==
    /\ job.pc = "ended"
    /\ job.ran
    /\ job.raised = E_export
    /\ job.row = [status |-> "failed", stage |-> "done", progress |-> 100,
                  error_message |-> E_export, result_paths |-> None]

\* dedupe_questions treats the two items as duplicates of each other: with
\* the default max_distance, either one is dropped when it follows the other.
JobDuplicates(a, b) ==
    DupOfEntry(SeenEntry(normalize(QuestionOf(a))),
               SeenEntry(normalize(QuestionOf(b))), 3)

Users == {1, 2}
TopicIds == {"t1"}
Titles == {"Biology", "Physics"}
FileRecordIds == {"f1", "f2"}
JobIds == {"j1", "j2"}
Shas == {"x"}

EmptyDb == [topics |-> {}, files |-> {}, jobs |-> {}]

\* deps.py: get_topic_for_user; the rows the query selects.
get_topic_for_user(db, topic_id, user) ==
    {tp \in db.topics : tp.id = topic_id /\ tp.user_id = user}
\* deps.py: get_job_for_user.
get_job_for_user(db, topic_id, job_id, user) ==
    {j \in db.jobs : j.id = job_id /\ j.topic = topic_id /\ j.user_id = user}
\* deps.py: get_file_for_user.
get_file_for_user(db, topic_id, file_id, user) ==
    {f \in db.files :
        /\ f.id = file_id /\ ~f.deleted /\ f.topic = topic_id
        /\ get_topic_for_user(db, topic_id, user) # {}}

LiveFiles(db, topic_id) == {f \in db.files : f.topic = topic_id /\ ~f.deleted}
FreeFileIds == FileRecordIds \ {f.id : f \in web.db.files}
FreeJobIds == JobIds \ {j.id : j \in web.db.jobs}

\* The request is answered with the status code; the tables become db.
Respond(db, route, user, topic_id, code) ==
    /\ web' = [web EXCEPT
                 !.db = db,
                 !.last = [route |-> route, user |-> user, topic |-> topic_id,
                           code |-> code]]
    /\ UNCHANGED allButWeb

TopicInit ==
    /\ web \in [db : {EmptyDb},
                max_files_per_topic : {1, 2},
                last : {[route |-> "none", user |-> 0, topic |-> "none", code |-> 0]}]
    /\ pc = Idle /\ env = Idle /\ ctx = Idle /\ agents_run = Idle
    /\ llm_calls = Idle /\ exc = Idle /\ result = Idle
    /\ inv = Idle /\ dd = Idle /\ nq = Idle /\ ps = Idle
    /\ job = Idle /\ xj = Idle /\ ix = Idle /\ emb = Idle /\ rl = Idle /\ up = Idle

\* topics.py:58-80.
create_topic ==
    \E u \in Users, t \in TopicIds, title \in Titles :
        /\ \A tp \in web.db.topics : tp.id # t
        /\ Respond([web.db EXCEPT !.topics = @ \cup {[id |-> t, user_id |-> u,
                                                      title |-> title]}],
                   "create_topic", u, t, 200)

\* topics.py:83-97, services/topics.py: the topic row goes, and with it
\* (cascade) the file and job rows of the topic.
delete_topic ==
    \E u \in Users, t \in TopicIds :
        IF get_topic_for_user(web.db, t, u) = {}
        THEN Respond(web.db, "delete_topic", u, t, 404)
        ELSE Respond([topics |-> {tp \in web.db.topics : tp.id # t},
                      files |-> {f \in web.db.files : f.topic # t},
                      jobs |-> {j \in web.db.jobs : j.topic # t}],
                     "delete_topic", u, t, 200)

\* topics.py:100-124.
update_topic ==
    \E u \in Users, t \in TopicIds, title \in Titles \cup {""} :
        IF get_topic_for_user(web.db, t, u) = {}
        THEN Respond(web.db, "update_topic", u, t, 404)
        ELSE IF title = ""
        THEN Respond(web.db, "update_topic", u, t, 400)
        ELSE Respond([web.db EXCEPT !.topics =
                         {IF tp.id = t THEN [tp EXCEPT !.title = title] ELSE tp
                            : tp \in @}],
                     "update_topic", u, t, 200)

\* files.py:24-37.
list_files ==
    \E u \in Users, t \in TopicIds :
        Respond(web.db, "list_files", u, t,
                IF get_topic_for_user(web.db, t, u) = {} THEN 404 ELSE 200)

\* files.py:40-101.  The rate limiter and the validation of the content
\* are collaborators: each lets the upload pass or refuses it.
upload_file ==
    \E u \in Users, t \in TopicIds, sha \in Shas, limited \in BOOLEAN,
       valid \in BOOLEAN :
        IF get_topic_for_user(web.db, t, u) = {}
        THEN Respond(web.db, "upload_file", u, t, 404)
        ELSE IF limited
        THEN Respond(web.db, "upload_file", u, t, 429)
        ELSE IF Cardinality(LiveFiles(web.db, t)) >= web.max_files_per_topic
        THEN Respond(web.db, "upload_file", u, t, 400)
        ELSE IF ~valid
        THEN Respond(web.db, "upload_file", u, t, 400)
        ELSE IF \E f \in LiveFiles(web.db, t) : f.sha = sha
        THEN Respond(web.db, "upload_file", u, t, 400)
        ELSE \E id \in FreeFileIds :
                Respond([web.db EXCEPT !.files = @ \cup
                            {[id |-> id, topic |-> t, sha |-> sha, deleted |-> FALSE]}],
                        "upload_file", u, t, 200)

\* files.py:104-114.
delete_file_record ==
    \E u \in Users, t \in TopicIds, id \in FileRecordIds :
        IF get_file_for_user(web.db, t, id, u) = {}
        THEN Respond(web.db, "delete_file_record", u, t, 404)
        ELSE Respond([web.db EXCEPT !.files =
                         {IF f.id = id THEN [f EXCEPT !.deleted = TRUE] ELSE f
                            : f \in @}],
                     "delete_file_record", u, t, 200)

\* A row of generation_jobs as create_job and retry_job insert it.
NewJob(id, t, u) ==
    [id |-> id, topic |-> t, user_id |-> u, status |-> "queued", result_paths |-> None]

\* jobs.py:27-64.
create_job ==
    \E u \in Users, t \in TopicIds, limited \in BOOLEAN :
        IF get_topic_for_user(web.db, t, u) = {}
        THEN Respond(web.db, "create_job", u, t, 404)
        ELSE IF limited
        THEN Respond(web.db, "create_job", u, t, 429)
        ELSE \E id \in FreeJobIds :
                Respond([web.db EXCEPT !.jobs = @ \cup {NewJob(id, t, u)}],
                        "create_job", u, t, 200)

\* jobs.py:67-83: the query filters by topic_id and user.id; no row gives
\* the answer null, with status 200.
latest_job ==
    \E u \in Users, t \in TopicIds :
        Respond(web.db, "latest_job", u, t, 200)

\* jobs.py:86-92.
job_status ==
    \E u \in Users, t \in TopicIds, id \in JobIds :
        Respond(web.db, "job_status", u, t,
                IF get_job_for_user(web.db, t, id, u) = {} THEN 404 ELSE 200)

\* jobs.py:95-110.
cancel_job ==
    \E u \in Users, t \in TopicIds, id \in JobIds :
        IF get_job_for_user(web.db, t, id, u) = {}
        THEN Respond(web.db, "cancel_job", u, t, 404)
        ELSE Respond([web.db EXCEPT !.jobs =
                         {IF j.id = id /\ j.status \notin {"done", "failed", "cancelled"}
                          THEN [j EXCEPT !.status = "cancelled"] ELSE j : j \in @}],
                     "cancel_job", u, t, 200)

\* jobs.py:113-137.
retry_job ==
    \E u \in Users, t \in TopicIds, id \in JobIds :
        IF get_job_for_user(web.db, t, id, u) = {}
        THEN Respond(web.db, "retry_job", u, t, 404)
        ELSE \E new \in FreeJobIds :
                LET old == CHOOSE j \in get_job_for_user(web.db, t, id, u) : TRUE
                IN Respond([web.db EXCEPT !.jobs = @ \cup {NewJob(new, t, old.user_id)}],
                           "retry_job", u, t, 200)

\* jobs.py:140-162: the package is on disk or not.
download_result ==
    \E u \in Users, t \in TopicIds, id \in JobIds, on_disk \in BOOLEAN :
        Respond(web.db, "download_result", u, t,
                IF get_job_for_user(web.db, t, id, u) = {} THEN 404
                ELSE IF \E j \in get_job_for_user(web.db, t, id, u) : j.result_paths = None THEN 404
                ELSE IF ~on_disk THEN 404 ELSE 200)

\* jobs.py:165-188: the Telegram call succeeds or raises.
send_result ==
    \E u \in Users, t \in TopicIds, id \in JobIds, on_disk \in BOOLEAN,
       sent \in BOOLEAN :
        Respond(web.db, "send_result", u, t,
                IF get_job_for_user(web.db, t, id, u) = {} THEN 404
                ELSE IF \E j \in get_job_for_user(web.db, t, id, u) : j.result_paths = None THEN 409
                ELSE IF ~on_disk THEN 404
                ELSE IF ~sent THEN 500 ELSE 200)

\* job_runner.py:213-218: the worker finishes a queued job.
WorkerDone ==
    /\ \E j \in web.db.jobs :
          /\ j.status = "queued"
          /\ web' = [web EXCEPT
                        !.db.jobs = (@ \ {j}) \cup
                            {[j EXCEPT !.status = "done", !.result_paths = "apkg"]},
                        !.last = [route |-> "worker", user |-> 0, topic |-> j.topic,
                                  code |-> 0]]
    /\ UNCHANGED allButWeb

TopicNext ==
    \/ create_topic
    \/ delete_topic
    \/ update_topic
    \/ list_files
    \/ upload_file
    \/ delete_file_record
    \/ create_job
    \/ latest_job
    \/ job_status
    \/ cancel_job
    \/ retry_job
    \/ download_result
    \/ send_result
    \/ WorkerDone
TopicSpec == TopicInit /\ [][TopicNext]_vars

\* The step is a request of a user for a topic that exists and belongs to
\* another user.
RequestByNonOwner ==
    /\ web'.last.route # "worker"
    /\ \E tp \in web.db.topics :
          tp.id = web'.last.topic /\ tp.user_id # web'.last.user

\* C19: every topic-scoped request (delete or any other) of a user who does
\* not own the topic is answered 404 and leaves the topic, its files and its
\* jobs unchanged.
C19_NonOwnerGets404AndChangesNothing ==
    [][RequestByNonOwner => (web'.last.code = 404 /\ web'.db = web.db)]_vars

(***************************************************************************)
(* utils.py: extract_first_json.  A text is a sequence of tokens: the      *)
(* fence marker of three backticks, the tag json, the four brackets, a     *)
(* whitespace character and a prose character.  Over these tokens the JSON *)
(* values are the empty object and the arrays of at most one value.        *)
(***************************************************************************)
MaxTextLen == 5

\* The marker of three backticks, as one token.
Fence == "fence"
XjTokens == {Fence, "json", "[", "]", "{", "}", " ", "x"}
XjTexts == SeqsUpTo(XjTokens, MaxTextLen)

NoJson == [found |-> FALSE, s |-> <<>>]
Json(s) == [found |-> TRUE, s |-> s]

\* The first index from i on that holds no whitespace (Len(t) + 1 if none).
RECURSIVE SkipWs(_, _)
SkipWs(t, i) == IF i <= Len(t) /\ t[i] = " " THEN SkipWs(t, i + 1) ELSE i

CloserOf(open) == IF open = "[" THEN "]" ELSE "}"

\* _JSON_FENCE_RE matched at position i: the fence, the optional tag,
\* whitespace, then lazily from a bracket to the first closing bracket of
\* its kind that is followed by whitespace and a fence.  The value is the
\* pair of the group's first and last index, or <<0, 0>>.
FenceMatchAt(t, i) ==
    IF t[i] # Fence THEN <<0, 0>>
    ELSE LET k == SkipWs(t, IF i + 1 <= Len(t) /\ t[i + 1] = "json" THEN i + 2 ELSE i + 1)
         IN IF k > Len(t) \/ t[k] \notin {"[", "{"} THEN <<0, 0>>
            ELSE LET ends == {e \in (k + 1)..Len(t) :
                                /\ t[e] = CloserOf(t[k])
                                /\ SkipWs(t, e + 1) <= Len(t)
                                /\ t[SkipWs(t, e + 1)] = Fence}
                 IN IF ends = {} THEN <<0, 0>>
                    ELSE <<k, CHOOSE e \in ends : \A f \in ends : e <= f>>

\* _JSON_FENCE_RE.search(text): the match at the leftmost position that has one.
FenceSearch(t) ==
    LET starts == {i \in 1..Len(t) : FenceMatchAt(t, i) # <<0, 0>>}
    IN IF starts = {} THEN <<0, 0>>
       ELSE FenceMatchAt(t, CHOOSE i \in starts : \A j \in starts : i <= j)

\* json.JSONDecoder().raw_decode on t from index i: the index after the
\* decoded value, or 0 when decoding fails.
RECURSIVE RawDecode(_, _)
RawDecode(t, i) ==
    IF i > Len(t) THEN 0
    ELSE IF t[i] = "{"
    THEN LET j == SkipWs(t, i + 1)
         IN IF j <= Len(t) /\ t[j] = "}" THEN j + 1 ELSE 0
    ELSE IF t[i] = "["
    THEN LET j == SkipWs(t, i + 1)
         IN IF j <= Len(t) /\ t[j] = "]" THEN j + 1
            ELSE LET e == RawDecode(t, j)
                 IN IF e = 0 THEN 0
                    ELSE IF SkipWs(t, e) <= Len(t) /\ t[SkipWs(t, e)] = "]"
                    THEN SkipWs(t, e) + 1 ELSE 0
    ELSE 0

\* utils.py:134-143: the scan for the first bracket from which a value decodes.
RECURSIVE ScanFrom(_, _)
ScanFrom(t, idx) ==
    IF idx > Len(t) THEN NoJson
    ELSE IF t[idx] \in {"[", "{"} /\ RawDecode(t, idx) # 0
    THEN Json(SubSeq(t, idx, RawDecode(t, idx) - 1))
    ELSE ScanFrom(t, idx + 1)

\* utils.py:125-145.
extract_first_json(text) ==
    IF text = <<>> THEN NoJson
    ELSE LET m == FenceSearch(text)
             s == Strip(text)
         IN IF m # <<0, 0>> THEN Json(SubSeq(text, m[1], m[2]))
            ELSE IF s # <<>> /\ s[1] \in {"[", "{"} THEN Json(s)
            ELSE ScanFrom(text, 1)

ExtractInit ==
    /\ xj \in [pc : {"call"}, text : XjTexts, result : {NoJson}]
    /\ pc = Idle /\ env = Idle /\ ctx = Idle /\ agents_run = Idle
    /\ llm_calls = Idle /\ exc = Idle /\ result = Idle
    /\ inv = Idle /\ dd = Idle /\ nq = Idle /\ ps = Idle
    /\ job = Idle /\ web = Idle /\ ix = Idle /\ emb = Idle /\ rl = Idle /\ up = Idle

ExtractCall ==
    /\ xj.pc = "call"
    /\ xj' = [xj EXCEPT !.pc = "done", !.result = extract_first_json(xj.text)]
    /\ UNCHANGED allButXj

ExtractNext == ExtractCall
ExtractSpec == ExtractInit /\ [][ExtractNext]_vars

\* A fenced code block that holds an array or object: two fence markers with
\* no marker between them whose content, after an optional json tag and
\* without the surrounding whitespace, runs from an opening bracket to a
\* closing bracket of its kind.  The value is the set of the blocks, each
\* given by the place of its opening marker and of its content.
BlockContent(t, i, j) ==
    Strip(SubSeq(t, IF t[i + 1] = "json" THEN i + 2 ELSE i + 1, j - 1))
FencedJsonBlocks(t) ==
    {b \in (1..Len(t)) \X (1..Len(t)) :
        /\ b[1] + 1 < b[2]
        /\ t[b[1]] = Fence /\ t[b[2]] = Fence
        /\ \A k \in (b[1] + 1)..(b[2] - 1) : t[k] # Fence
        /\ \E c \in {BlockContent(t, b[1], b[2])} :
              /\ Len(c) >= 2
              /\ c[1] \in {"[", "{"}
              /\ c[Len(c)] = CloserOf(c[1])}
\* The stated priority: the first such block, else the whole trimmed text
\* when it starts with a bracket, else the first decodable substring.
StatedResult(t) ==
    IF FencedJsonBlocks(t) # {}
    THEN LET b == CHOOSE x \in FencedJsonBlocks(t) :
                     \A y \in FencedJsonBlocks(t) : x[1] <= y[1]
         IN Json(BlockContent(t, b[1], b[2]))
    ELSE IF Strip(t) # <<>> /\ Strip(t)[1] \in {"[", "{"} THEN Json(Strip(t))
    ELSE ScanFrom(t, 1)

\* C20: extract_first_json returns, in this priority, the content of the
\* first fenced code block (tagged json or untagged) that holds an array or
\* object, else the whole trimmed text when it starts with a bracket, else
\* the first substring starting at a bracket from which a JSON value
\* decodes, else nothing.
C20_ExtractionFollowsStatedPriority ==
    xj.pc = "done" => xj.result = StatedResult(xj.text)

(***************************************************************************)
(* An agent's run() called on a prepared context (AgentSpec): the context  *)
(* carries what the agents before it in the pipeline leave behind.  The    *)
(* caller's wish to cancel is state of the caller: QAContext has no field  *)
(* that could carry it to the agent.  llm_replies says what the LLM client *)
(* of this call would answer: text the parsers accept, or text they reject *)
(* on every retry.                                                         *)
(***************************************************************************)
Topics == {"cats", "birds", "?!"}
TopicLists == {<<>>} \cup {<<t>> : t \in Topics}

\* set(normalize_text(s).split()) of the chunk texts and topics above.
WordsOf(s) ==
    CASE s = "cats eat fish" -> {"cats", "eat", "fish"}
      [] s = "dogs bark loud" -> {"dogs", "bark", "loud"}
      [] s = "cats" -> {"cats"}
      [] s = "birds" -> {"birds"}
      [] s = "?!" -> {}

\* Candidate questions a file may hold when the Mixer runs.
MixerQuestion(q) == RawItem(PyStr(S_open), q, PyStr(A_42), PyNone, PyNone, PyList(<<>>))
QuestionLists ==
    {<<>>, <<MixerQuestion(T_a_b)>>, <<MixerQuestion(T_a_b), MixerQuestion(T_b_a)>>,
     <<MixerQuestion(T_a_b), MixerQuestion(T_b_a), MixerQuestion(T_Define)>>}

\* What PlannerAgent and EvidenceAgent leave for the files with chunks.
EvidenceOf(nc, tp) ==
    [id \in DOMAIN nc |-> [k \in 1..Len(tp) |-> [topic |-> tp[k], context |-> nc[id]]]]

\* The files of a list that have a chunk.
ChunkedIds(files) == {files[i].file_id : i \in {j \in 1..Len(files) : files[j].chunks # <<>>}}

AgentContext(files, n, e, st, tp, ql) ==
    [QAContext(files, n, "medium") EXCEPT
        !.llm = "llm",
        !.embeddings = e,
        !.normalized_chunks = NormalizedChunksOf(files),
        !.stores = [id \in st |-> "store"],
        !.per_file_topics = [id \in ChunkedIds(files) |-> tp],
        !.per_file_evidence = EvidenceOf(NormalizedChunksOf(files), tp),
        !.per_file_questions = [id \in {files[i].file_id : i \in 1..Len(files)} |-> ql],
        !.metrics = IF e = None
                    THEN Put(Put(EmptyDict, "files", Len(files)), "embeddings_disabled", TRUE)
                    ELSE Put(EmptyDict, "files", Len(files))]

AgentContexts ==
    UNION {{AgentContext(files, n, e, st, tp, ql)
               : n \in 1..MaxTotal, e \in {None, "embeddings"},
                 st \in SUBSET ChunkedIds(files), tp \in TopicLists, ql \in QuestionLists}
           : files \in FileLists}

CalledAgents == {"NormalizeChunks", "IndexPerFile", "Planner", "Evidence", "QGen", "Mixer"}

\* Candidates as QGenAgent leaves them for the Verifier: sources is what the
\* LLM gave, or the [] of item.setdefault("sources", []) (agents.py:341).
VerifierSources == {PyList(<<>>), PyNone, PyList(<<<<"d", "o", "c">>>>), PyStr(<<"d", "o", "c">>)}
VerifierTags ==
    {PyNone, PyList(<<>>), PyList(<<S_unverified>>), PyStr(S_MCQ_padded), PyInt(7)}
VerifierItems ==
    {[MixerQuestion(T_a_b) EXCEPT !.sources = src, !.tags = tg]
        : src \in VerifierSources, tg \in VerifierTags}
VerifierLists ==
    {<<>>} \cup {<<a>> : a \in VerifierItems}
           \cup {<<a, b>> : a \in VerifierItems, b \in VerifierItems}
VerifierContexts ==
    {AgentContext(files, 1, None, {}, <<>>, ql) : files \in FileLists, ql \in VerifierLists}

AgentInit ==
    /\ ix \in [pc : {"call"}, agent : CalledAgents, arg : AgentContexts,
               ctx : {None}, exc : {"none"}, cancel_requested : BOOLEAN,
               llm_replies : {"parsable", "unparsable"}]
          \cup [pc : {"call"}, agent : {"Verifier"}, arg : VerifierContexts,
                ctx : {None}, exc : {"none"}, cancel_requested : BOOLEAN,
                llm_replies : {"parsable"}]
    /\ pc = Idle /\ env = Idle /\ ctx = Idle /\ agents_run = Idle
    /\ llm_calls = Idle /\ exc = Idle /\ result = Idle
    /\ inv = Idle /\ dd = Idle /\ nq = Idle /\ ps = Idle /\ job = Idle
    /\ web = Idle /\ xj = Idle /\ emb = Idle /\ rl = Idle /\ up = Idle

\* ctx = agent.run(ctx): the context comes back, or an exception leaves the agent.
AgentCall ==
    /\ ix.pc = "call"
    /\ LET r == AgentRun(ix.agent, ix.arg)
       IN ix' = [ix EXCEPT !.pc = IF r.exc = "none" THEN "returned" ELSE "raised",
                           !.ctx = r.ctx,
                           !.exc = r.exc]
    /\ UNCHANGED allButIx

AgentNext == AgentCall
AgentSpec == AgentInit /\ [][AgentNext]_vars

(***************************************************************************)
(* EvidenceAgent.run in lexical fallback (agents.py:222-253): what the     *)
(* agent is to leave in per_file_evidence for a file without a store.      *)
(***************************************************************************)
rag_top_k == 5
\* agents.py:233: the topic used for a file the Planner found no topic for
\* (two Cyrillic words, none of them a word of a chunk above).
DefaultTopic == "kljuchevye fakty"
TopicsFor(c, id) ==
    IF Get(c.per_file_topics, id, <<>>) # <<>> THEN c.per_file_topics[id]
    ELSE <<DefaultTopic>>
TopicWords(topic) == IF topic = DefaultTopic THEN {"kljuchevye", "fakty"} ELSE WordsOf(topic)
\* len(item[1] & topic_tokens)
Score(chunk, topic) == Cardinality(WordsOf(chunk.text) \cap TopicWords(topic))
\* The files Evidence handles lexically: chunks and no vector store.
LexicalFiles(c) == DOMAIN c.normalized_chunks \ DOMAIN c.stores
\* The selection the claim states for a topic, given the file's chunks.
SelectedAsStated(sel, chunks, topic) ==
    IF \E i \in 1..Len(chunks) : Score(chunks[i], topic) > 0
    THEN /\ Len(sel) = Min(rag_top_k,
                           Cardinality({i \in 1..Len(chunks) : Score(chunks[i], topic) > 0}))
         /\ \A k \in 1..Len(sel) :
               /\ \E i \in 1..Len(chunks) : chunks[i] = sel[k]
               /\ Score(sel[k], topic) > 0
         /\ \A k \in 1..(Len(sel) - 1) : Score(sel[k], topic) >= Score(sel[k + 1], topic)
    ELSE sel = SubSeq(chunks, 1, Min(rag_top_k, Len(chunks)))

\* C21: in lexical fallback the Evidence agent selects, for a topic with a
\* token some chunk shares, at most K chunks, every one sharing a token with
\* the topic, in descending order of the number of shared tokens; for a
\* topic without tokens, or one no chunk shares a token with, it selects
\* the first K chunks.  The selection is what the evidence item of the topic
\* is built from.
C21_LexicalSelectionAsStated ==
    (ix.pc # "call" /\ ix.agent = "Evidence") =>
        \A id \in LexicalFiles(ix.arg) :
            /\ ix.pc = "returned"
            /\ id \in DOMAIN ix.ctx.per_file_evidence
            /\ Len(ix.ctx.per_file_evidence[id]) = Len(TopicsFor(ix.arg, id))
            /\ \A k \in 1..Len(TopicsFor(ix.arg, id)) :
                  /\ ix.ctx.per_file_evidence[id][k].topic = TopicsFor(ix.arg, id)[k]
                  /\ SelectedAsStated(ix.ctx.per_file_evidence[id][k].context,
                                      ix.arg.normalized_chunks[id],
                                      TopicsFor(ix.arg, id)[k])

(***************************************************************************)
(* Cancellation polls of the agents (agents.py: "if _cancelled(ctx):       *)
(* return ctx" at the top of every per-file and per-topic iteration).      *)
(***************************************************************************)
\* The call reaches a poll: the agent enters its loop over ctx.files.
ReachesPoll(agent, c) ==
    /\ agent \in {"NormalizeChunks", "IndexPerFile", "Planner", "Evidence", "QGen"}
    /\ c.files # <<>>
    /\ agent = "IndexPerFile" => c.embeddings # None

\* C23: an agent that polls while cancellation is requested returns at once
\* without raising, and the context it returns is the one it had at the
\* poll: no mapping assigned, no metrics updated, no further file handled.
\* With cancellation requested before the call the first poll is the one at
\* the top of the first iteration, so the context comes back as it came in.
C23_CancelledPollReturnsContextUnchanged ==
    (ix.pc # "call" /\ ix.cancel_requested /\ ReachesPoll(ix.agent, ix.arg)) =>
        /\ ix.pc = "returned"
        /\ ix.exc = "none"
        /\ ix.ctx = ix.arg

\* C24: once the caller's cancellation holds, an attempt that is about to
\* start does not start: invoke's next step is to return the empty string,
\* with no further client call and no further wait slept.
C24_InvokeStopsOnCancellation ==
    [][(inv.pc = "loop" /\ inv.cancel_requested /\ AttemptsLeft(inv)) =>
          /\ inv'.pc = "returned"
          /\ inv'.value = [str |-> <<>>]
          /\ inv'.calls = inv.calls
          /\ inv'.log = inv.log]_vars

(***************************************************************************)
(* cancel_job (jobs.py:95-110) against run_generation_job (JobSpec).       *)
(***************************************************************************)
\* C25: once cancel_job has committed status "cancelled", no later step
\* changes the job's status, stage, progress or result_paths, in whatever
\* order the steps of the two interleave: the job never becomes running,
\* done or failed, and no package is exported for it.
C25_CancelledJobIsNeverWrittenAgain ==
    [][job.row.status = "cancelled" =>
          /\ job'.row.status = "cancelled"
          /\ job'.row.stage = job.row.stage
          /\ job'.row.progress = job.row.progress
          /\ job'.row.result_paths = job.row.result_paths
          /\ job'.export_called = job.export_called]_vars

DegradedContext(c) ==
    /\ c.embeddings = None
    /\ Get(c.metrics, "embeddings_disabled", FALSE) = TRUE

\* C27: after such a failure the run retrieves lexically only: Evidence
\* returns (the failure is no run failure) and the evidence of every file
\* with chunks, a file indexed before the failure included, is the lexical
\* selection and not the result of a vector-store query.
C27_DegradedRunIsLexicalOnly ==
    (ix.pc # "call" /\ ix.agent = "Evidence" /\ DegradedContext(ix.arg)) =>
        /\ ix.pc = "returned"
        /\ \A id \in DOMAIN ix.arg.normalized_chunks :
              /\ id \in DOMAIN ix.ctx.per_file_evidence
              /\ Get(ix.ctx.metrics, "retrieval_mode", None) = "lexical"
              /\ \A k \in 1..Len(ix.ctx.per_file_evidence[id]) :
                    SelectedAsStated(ix.ctx.per_file_evidence[id][k].context,
                                     ix.arg.normalized_chunks[id],
                                     ix.ctx.per_file_evidence[id][k].topic)

(***************************************************************************)
(* MixerAgent.run behind its first statement (agents.py:376-406): the      *)
(* pool, the first deduplication pass and the backfill.                    *)
(***************************************************************************)
\* utils.py:251-260.
RECURSIVE CheapLoop(_, _, _)
CheapLoop(items, i, seen) ==
    IF i > Len(items) THEN <<>>
    ELSE LET question == normalize_text(items[i].question)
         IN IF question = <<>> \/ question \in seen
            THEN CheapLoop(items, i + 1, seen)
            ELSE <<items[i]>> \o CheapLoop(items, i + 1, seen \cup {question})
cheap_dedupe(items) == CheapLoop(items, 1, {})

\* agents.py:377: max(1, requested_total // max(1, len(files))).
per_file_quota(c) ==
    LET q == c.requested_total \div (IF Len(c.files) = 0 THEN 1 ELSE Len(c.files))
    IN IF q >= 1 THEN q ELSE 1
QuestionsOf(c, i) == Get(c.per_file_questions, c.files[i].file_id, <<>>)
\* agents.py:379-386: round one, and round two when the pool is short.
MixerPool(c) ==
    LET cut == per_file_quota(c) * 2
        round1 == Concat([i \in 1..Len(c.files) |->
                             SubSeq(QuestionsOf(c, i), 1, Min(cut, Len(QuestionsOf(c, i))))])
        round2 == Concat([i \in 1..Len(c.files) |->
                             SubSeq(QuestionsOf(c, i), cut + 1, Len(QuestionsOf(c, i)))])
    IN IF Len(round1) < c.requested_total * 2 THEN round1 \o round2 ELSE round1
\* agents.py:388-391.
MixerNormalized(c) == normalize_question_items(MixerPool(c), c.difficulty, TRUE)
MixerFirstPass(c) == dedupe_questions(cheap_dedupe(MixerNormalized(c)), 3)
\* agents.py:396-403: the items the backfill appends.
MixerBackfill(c) ==
    LET first == MixerFirstPass(c)
        raw == Concat([i \in 1..Len(c.files) |->
                          normalize_question_items(QuestionsOf(c, i), c.difficulty, TRUE)])
    IN IF Len(first) < c.requested_total
       THEN SubSeq(raw, 1, Min(c.requested_total - Len(first), Len(raw)))
       ELSE <<>>
\* agents.py:404-405 and 408-414: the list the Mixer would store.
MixerFinal(c) ==
    LET first == MixerFirstPass(c)
        all_items == IF Len(first) < c.requested_total
                     THEN dedupe_questions(cheap_dedupe(first \o MixerBackfill(c)), 3)
                     ELSE first
        final == [k \in 1..Len(all_items) |-> to_anki_qa(all_items[k])]
    IN SubSeq(final, 1, Min(c.requested_total, Len(final)))

\* The question texts the first pass rejected: in the pool, not accepted.
RejectedQuestions(c) ==
    {MixerNormalized(c)[k].question : k \in 1..Len(MixerNormalized(c))}
        \ {MixerFirstPass(c)[k].question : k \in 1..Len(MixerFirstPass(c))}
\* The backfill draws an item the first pass rejected.
BackfillRedrawsRejected(c) ==
    \E k \in 1..Len(MixerBackfill(c)) : MixerBackfill(c)[k].question \in RejectedQuestions(c)

\* C29: an item the first deduplication pass rejected as a near-duplicate
\* of an accepted item, and which the backfill draws again, is back among
\* the candidates and appears in the final result of the Mixer.
C29_RejectedItemReturnsThroughBackfill ==
    (ix.pc # "call" /\ ix.agent = "Mixer" /\ BackfillRedrawsRejected(ix.arg)) =>
        /\ ix.pc = "returned"
        /\ "_result" \in DOMAIN ix.ctx.metrics
        /\ \E k \in 1..Len(ix.ctx.metrics["_result"]) :
              ix.ctx.metrics["_result"][k].question \in RejectedQuestions(ix.arg)

(***************************************************************************)
(* The candidate pool of the Mixer (agents.py:376-386) against the quota   *)
(* of QGen (agents.py:287-288).                                            *)
(***************************************************************************)
\* agents.py:287: quota = max(2, requested_total // max(1, len(ctx.files))).
qgen_quota(c) ==
    LET q == c.requested_total \div (IF Len(c.files) = 0 THEN 1 ELSE Len(c.files))
    IN IF q >= 2 THEN q ELSE 2
\* The pool as stated, for a per-file quota.
StatedPool(c, quota) ==
    LET round1 == Concat([i \in 1..Len(c.files) |->
                    SubSeq(QuestionsOf(c, i), 1, Min(2 * quota, Len(QuestionsOf(c, i))))])
        rest == Concat([i \in 1..Len(c.files) |->
                    SubSeq(QuestionsOf(c, i), 2 * quota + 1, Len(QuestionsOf(c, i)))])
    IN IF Len(round1) < 2 * c.requested_total THEN round1 \o rest ELSE round1
TotalCandidates(c) == Len(Concat([i \in 1..Len(c.files) |-> QuestionsOf(c, i)]))

\* C31: the Mixer builds its pool from the first 2 x quota items of each
\* file, in file order, followed, only when that is fewer than
\* 2 x requested_total items, by the remaining items of each file; the quota
\* is the per-file quota of QGen; no candidate is in the pool twice.
C31_PoolIsTwoRoundsWithQGenQuota ==
    (ix.pc # "call" /\ ix.agent = "Mixer") =>
        /\ ix.pc = "returned"
        /\ MixerPool(ix.arg) = StatedPool(ix.arg, qgen_quota(ix.arg))
        /\ Len(MixerPool(ix.arg)) <= TotalCandidates(ix.arg)

\* C32: after an attempt that failed with a transient network error whose
\* message holds no retry hint ("Read timed out"), invoke waits
\* min(2^attempt, 20) seconds before the next attempt, attempt being the
\* number of the failed attempt (counted from 0 or from 1): the wait is
\* never zero.
C32_TransientErrorBacksOffExponentially ==
    \A k \in 1..Len(inv.log) :
        inv.log[k].msg = M_timeout =>
            \E attempt \in {k - 1, k} :
                inv.log[k].slept = 10 * Min(2 ^ attempt, 20)

(***************************************************************************)
(* PlannerAgent.run (agents.py:183-211).                                   *)
(***************************************************************************)
\* agents.py:197: max(3, min(10, requested_total // max(1, len(files)) // 3 + 3)).
planner_target(c) ==
    LET per_file == c.requested_total \div (IF Len(c.files) = 0 THEN 1 ELSE Len(c.files))
        t == Min(10, per_file \div 3 + 3)
    IN IF t >= 3 THEN t ELSE 3

\* C33: the Planner leaves for every file a topic list of at most
\* target = max(3, min(10, requested_total / file_count / 3 + 3)) topics,
\* 3 <= target <= 10, and the empty list for every file when the topic
\* lists cannot be parsed after the retries.
C33_PlannerStoresAtMostTargetTopics ==
    (ix.pc # "call" /\ ix.agent = "Planner") =>
        /\ ix.pc = "returned"
        /\ 3 <= planner_target(ix.arg) /\ planner_target(ix.arg) <= 10
        /\ \A i \in 1..Len(ix.arg.files) :
              /\ ix.arg.files[i].file_id \in DOMAIN ix.ctx.per_file_topics
              /\ Len(ix.ctx.per_file_topics[ix.arg.files[i].file_id]) <= planner_target(ix.arg)
              /\ ix.llm_replies = "unparsable" =>
                    ix.ctx.per_file_topics[ix.arg.files[i].file_id] = <<>>

(***************************************************************************)
(* VerifierAgent.run (agents.py:352-369) on the candidates of a file.      *)
(***************************************************************************)
\* The tags a tags value stands for: the words of a string, the elements of
\* a list, nothing for any other value.
TagWords(tags) ==
    IF tags.t = "str" THEN Split(tags.s)
    ELSE IF tags.t = "list" THEN tags.v
    ELSE <<>>

Unverified(tagseq) == Cardinality({i \in 1..Len(tagseq) : tagseq[i] = S_unverified})

\* An item has no sources: the list is empty or missing.
NoSources(item) == item.sources \in {PyList(<<>>), PyNone}

\* C34: the Verifier drops and reorders nothing: every file's candidate list
\* afterwards has the same items in the same order (all fields but tags as
\* before), and an item gains one tag "unverified" exactly when it has no
\* sources.
C34_VerifierKeepsItemsAndTagsUnsourced ==
    (ix.pc # "call" /\ ix.agent = "Verifier") =>
        /\ ix.pc = "returned"
        /\ \A i \in 1..Len(ix.arg.files) :
             \A before \in {Get(ix.arg.per_file_questions, ix.arg.files[i].file_id, <<>>)} :
             \A after \in {Get(ix.ctx.per_file_questions, ix.arg.files[i].file_id, <<>>)} :
                /\ Len(after) = Len(before)
                /\ \A k \in 1..Len(before) :
                      /\ after[k] = [before[k] EXCEPT !.tags = after[k].tags]
                      /\ after[k].tags.t = "list"
                      /\ Unverified(after[k].tags.v)
                            = Unverified(TagWords(before[k].tags))
                              + (IF NoSources(before[k]) THEN 1 ELSE 0)

\* A Verifier call on a file with one candidate without sources and one
\* with sources: only the first was tagged.
C34_Witness ==
    /\ ix.pc = "returned" /\ ix.agent = "Verifier"
    /\ Len(ix.arg.files) = 2
    /\ \E before \in {ix.arg.per_file_questions["f2"]} :
       \E after \in {ix.ctx.per_file_questions["f2"]} :
          /\ Len(before) = 2
          /\ NoSources(before[1]) /\ ~NoSources(before[2])
          /\ before[1].tags = PyNone /\ after[1].tags = PyList(<<S_unverified>>)
          /\ before[2].tags = PyStr(S_MCQ_padded) /\ Unverified(after[2].tags.v) = 0

(***************************************************************************)
(* to_anki_qa (utils.py:207-248) on the records of type mcq that           *)
(* normalize_question_items kept.                                          *)
(***************************************************************************)
\* The option at correct_index of an mcq record.
OptionAtIndex(rec) == rec.options.v[IntVal(DigitsToInt(rec.correct_index)) + 1]

HasTag(rec, tag) == \E i \in 1..Len(rec.tags) : rec.tags[i] = tag

\* What the claim and its amended form share: type open, the two mcq
\* fields gone, tag "open" present and tag "mcq" absent.
RewrittenAsOpen(rec) ==
    /\ rec.type = S_open
    /\ "options" \notin DOMAIN rec /\ "correct_index" \notin DOMAIN rec
    /\ HasTag(rec, S_open) /\ ~HasTag(rec, S_mcq)

\* C35 as stated: every mcq item that reaches the display rewrite comes out
\* with type open, without options and correct_index, with the text of the
\* option at correct_index as its answer, and with tag "open" and no tag "mcq".
C35_McqAnswerIsOptionText ==
    nq.pc = "final" =>
        \A k \in 1..Len(nq.items) :
            nq.items[k].type = S_mcq =>
                /\ RewrittenAsOpen(nq.final[k])
                /\ nq.final[k].answer \in {OptionAtIndex(nq.items[k]),
                                           Strip(OptionAtIndex(nq.items[k]))}

\* C35, amended: every mcq item that reaches the display rewrite comes out
\* with type open, without options and correct_index, with tag "open" and
\* no tag "mcq"; its answer is the stripped text of the option at
\* correct_index when that text is not empty, and its own answer otherwise.
C35_McqAnswerIsOptionTextUnlessBlank ==
    nq.pc = "final" =>
        \A k \in 1..Len(nq.items) :
            nq.items[k].type = S_mcq =>
                /\ RewrittenAsOpen(nq.final[k])
                /\ nq.final[k].answer =
                      IF Strip(OptionAtIndex(nq.items[k])) # <<>>
                      THEN Strip(OptionAtIndex(nq.items[k]))
                      ELSE nq.items[k].answer

\* A rewritten list with an mcq item whose chosen option is blank (answer
\* kept) and one whose chosen option is a text (answer replaced), the first
\* of them having carried the tag "mcq".
C35_Witness ==
    /\ nq.pc = "final" /\ Len(nq.items) = 2
    /\ nq.items[1].type = S_mcq /\ nq.items[2].type = S_mcq
    /\ HasTag(nq.items[1], S_mcq)
    /\ OptionAtIndex(nq.items[1]) = O_blank /\ nq.final[1].answer = A_42
    /\ OptionAtIndex(nq.items[2]) = O_b /\ nq.final[2].answer = O_b

(***************************************************************************)
(* EmbeddingsSpec: local_embeddings (clients.py:126-152) and the three     *)
(* module-level variables it keeps, called by the runs of one process.     *)
(* Nothing in the function excludes another caller, so each statement that *)
(* reads or writes the globals is a step of its own; the model load        *)
(* (the LocalSentenceTransformerEmbeddings constructor) returns a new      *)
(* instance or raises an exception whose str() is any string, the empty    *)
(* one included.  Time is time.time() in seconds.                          *)
(***************************************************************************)
MaxCallers == 2
MaxCalls == 2
MaxTime == 600
embedding_init_backoff_seconds == 300

Callers == 1..MaxCallers
TimeSteps == {100, 200}
\* The instance a caller's k-th call constructs.
ModelInstance(c, k) == [t |-> "model", by |-> c, call |-> k]
LoadErrors == {PyStr(<<>>), PyStr(<<"b", "o", "o", "m">>)}

EmbInit ==
    /\ emb = [_EMBEDDINGS_CACHE |-> PyNone,
              _EMBEDDINGS_LAST_ERROR |-> PyNone,
              _EMBEDDINGS_LAST_ATTEMPT |-> 0,
              now |-> 0,
              pc |-> [c \in Callers |-> "idle"],
              calls |-> [c \in Callers |-> 0],
              local |-> [c \in Callers |-> PyNone],
              attempts |-> <<>>,
              returned |-> {}]
    /\ PipelineIdle
    /\ inv = Idle /\ dd = Idle /\ nq = Idle /\ ps = Idle /\ job = Idle
    /\ web = Idle /\ xj = Idle /\ ix = Idle /\ rl = Idle /\ up = Idle

\* clients.py:128-129: a caller enters and tests the cache.
EmbTestCache(c) ==
    /\ emb.pc[c] = "idle" /\ emb.calls[c] < MaxCalls
    /\ emb' = IF emb._EMBEDDINGS_CACHE # PyNone
              THEN [emb EXCEPT !.calls[c] = @ + 1,
                               !.returned = @ \cup {emb._EMBEDDINGS_CACHE}]
              ELSE [emb EXCEPT !.calls[c] = @ + 1, !.pc[c] = "test_error"]
    /\ UNCHANGED allButEmb

\* clients.py:130-132: within the backoff the recorded error is raised again.
EmbTestError(c) ==
    /\ emb.pc[c] = "test_error"
    /\ emb' = IF /\ Truthy(emb._EMBEDDINGS_LAST_ERROR)
                 /\ emb.now - emb._EMBEDDINGS_LAST_ATTEMPT < embedding_init_backoff_seconds
              THEN [emb EXCEPT !.pc[c] = "idle"]
              ELSE [emb EXCEPT !.pc[c] = "stamp"]
    /\ UNCHANGED allButEmb

\* clients.py:133: _EMBEDDINGS_LAST_ATTEMPT = time.time(); the load attempt
\* begins (attempts is the history of these times).
EmbStamp(c) ==
    /\ emb.pc[c] = "stamp"
    /\ emb' = [emb EXCEPT !._EMBEDDINGS_LAST_ATTEMPT = emb.now,
                          !.attempts = Append(@, emb.now),
                          !.pc[c] = "load"]
    /\ UNCHANGED allButEmb

\* clients.py:141-146: the constructor loads the model and returns.
EmbLoadOk(c) ==
    /\ emb.pc[c] = "load"
    /\ emb' = [emb EXCEPT !.local[c] = ModelInstance(c, emb.calls[c]),
                          !.pc[c] = "store"]
    /\ UNCHANGED allButEmb

\* clients.py:141-147: the constructor raises.
EmbLoadFails(c) ==
    /\ emb.pc[c] = "load"
    /\ \E e \in LoadErrors :
          emb' = [emb EXCEPT !.local[c] = e, !.pc[c] = "except"]
    /\ UNCHANGED allButEmb

\* clients.py:148-149: _EMBEDDINGS_LAST_ERROR = str(exc); raise
EmbExcept(c) ==
    /\ emb.pc[c] = "except"
    /\ emb' = [emb EXCEPT !._EMBEDDINGS_LAST_ERROR = emb.local[c],
                          !.local[c] = PyNone,
                          !.pc[c] = "idle"]
    /\ UNCHANGED allButEmb

\* clients.py:150-152: the error is cleared, the instance cached and returned.
EmbStore(c) ==
    /\ emb.pc[c] = "store"
    /\ emb' = [emb EXCEPT !._EMBEDDINGS_LAST_ERROR = PyNone,
                          !._EMBEDDINGS_CACHE = emb.local[c],
                          !.returned = @ \cup {emb.local[c]},
                          !.local[c] = PyNone,
                          !.pc[c] = "idle"]
    /\ UNCHANGED allButEmb

\* The clock moves on.
EmbTick ==
    /\ \E d \in TimeSteps :
          /\ emb.now + d <= MaxTime
          /\ emb' = [emb EXCEPT !.now = @ + d]
    /\ UNCHANGED allButEmb

EmbNext ==
    \/ \E c \in Callers :
          \/ EmbTestCache(c) \/ EmbTestError(c) \/ EmbStamp(c)
          \/ EmbLoadOk(c) \/ EmbLoadFails(c) \/ EmbExcept(c) \/ EmbStore(c)
    \/ EmbTick

EmbeddingsSpec == EmbInit /\ [][EmbNext]_vars

\* C36: at most one model load attempt per backoff window (two attempts are
\* at least embedding_init_backoff_seconds apart), and every call that
\* returns, from whichever run, returns one and the same cached instance.
C36_OneLoadAttemptPerWindow ==
    /\ \A i \in 1..Len(emb.attempts) : \A j \in 1..Len(emb.attempts) :
          i < j => emb.attempts[j] - emb.attempts[i] >= embedding_init_backoff_seconds
    /\ Cardinality(emb.returned) <= 1

(***************************************************************************)
(* RateLimitSpec: check_rate_limit (rate_limit.py:6-14) called by          *)
(* concurrent requests on one key.  Redis executes INCR and EXPIRE one at  *)
(* a time; a command either takes effect or raises RedisError without      *)
(* effect.  A key with an expiry is deleted when its time has come; a key  *)
(* without one stays.  window counts the lifetimes of the key: a call      *)
(* belongs to the window in which its INCR was executed.                   *)
(***************************************************************************)
MaxLimit == 2
MaxRlCalls == 3
MaxRlTime == 120
window_seconds == 60

RlCallers == 1..2
RlTimeSteps == {30}
\* The expiry of the key is a set: empty when the key has none.
NoExpiry == {}

\* rate_limit.py:11, the variant first: one call too many is let through.
Exceeds_by_two(current, limit) == current > limit + 1

Exceeds(current, limit) == current > limit

RlInit ==
    /\ rl \in [limit : 1..MaxLimit,
               counter : {0},              \* the value under the key; 0: no key
               expires_at : {NoExpiry},
               now : {0},
               window : {1},
               pc : {[c \in RlCallers |-> "idle"]},
               current : {[c \in RlCallers |-> 0]},
               in_window : {[c \in RlCallers |-> 0]},
               calls : {0},
               redis_errors : {0},
               log : {<<>>}]
    /\ PipelineIdle
    /\ inv = Idle /\ dd = Idle /\ nq = Idle /\ ps = Idle /\ job = Idle
    /\ web = Idle /\ xj = Idle /\ ix = Idle /\ emb = Idle /\ up = Idle

\* How a call ended: the window and the counter value of its INCR (0 when
\* the INCR raised), whether it returned or raised ValueError.
RlOutcome(c, how, err) ==
    [window |-> rl.in_window[c], current |-> rl.current[c], outcome |-> how,
     redis_error |-> err]

\* rate_limit.py:8: current = await redis.incr(key)
RlIncr(c) ==
    /\ rl.pc[c] = "idle" /\ rl.calls < MaxRlCalls
    /\ rl' = [rl EXCEPT !.counter = @ + 1,
                        !.current[c] = rl.counter + 1,
                        !.in_window[c] = rl.window,
                        !.calls = @ + 1,
                        !.pc[c] = "incremented"]
    /\ UNCHANGED allButRl

\* rate_limit.py:8, 13-14: redis.incr raises RedisError; the call returns.
RlIncrFails(c) ==
    /\ rl.pc[c] = "idle" /\ rl.calls < MaxRlCalls
    /\ rl' = [rl EXCEPT !.calls = @ + 1,
                        !.redis_errors = @ + 1,
                        !.log = Append(@, [RlOutcome(c, "returned", TRUE)
                                              EXCEPT !.current = 0, !.window = rl.window])]
    /\ UNCHANGED allButRl

\* rate_limit.py:9-10: if current == 1: await redis.expire(key, window_seconds)
RlExpire(c) ==
    /\ rl.pc[c] = "incremented"
    /\ rl' = IF rl.current[c] = 1
             THEN [rl EXCEPT !.expires_at = IF rl.counter > 0 THEN {rl.now + window_seconds}
                                            ELSE @,
                             !.pc[c] = "compare"]
             ELSE [rl EXCEPT !.pc[c] = "compare"]
    /\ UNCHANGED allButRl

\* rate_limit.py:10, 13-14: redis.expire raises RedisError; the call returns.
RlExpireFails(c) ==
    /\ rl.pc[c] = "incremented" /\ rl.current[c] = 1
    /\ rl' = [rl EXCEPT !.redis_errors = @ + 1,
                        !.log = Append(@, RlOutcome(c, "returned", TRUE)),
                        !.current[c] = 0,
                        !.in_window[c] = 0,
                        !.pc[c] = "idle"]
    /\ UNCHANGED allButRl

\* rate_limit.py:11-12: if current > limit: raise ValueError("Rate limit exceeded")
RlCompare(c) ==
    /\ rl.pc[c] = "compare"
    /\ rl' = [rl EXCEPT !.log = Append(@, RlOutcome(c, IF Exceeds(rl.current[c], rl.limit)
                                                       THEN "raised" ELSE "returned", FALSE)),
                        !.current[c] = 0,
                        !.in_window[c] = 0,
                        !.pc[c] = "idle"]
    /\ UNCHANGED allButRl

\* Time passes; Redis deletes the key when its expiry is reached.
RlTick ==
    /\ \E d \in RlTimeSteps :
          /\ rl.now + d <= MaxRlTime
          /\ rl' = IF \E t \in rl.expires_at : rl.now + d >= t
                   THEN [rl EXCEPT !.now = @ + d, !.counter = 0,
                                   !.expires_at = NoExpiry, !.window = @ + 1]
                   ELSE [rl EXCEPT !.now = @ + d]
    /\ UNCHANGED allButRl

RateLimitNext ==
    \/ \E c \in RlCallers :
          \/ RlIncr(c) \/ RlIncrFails(c) \/ RlExpire(c) \/ RlExpireFails(c) \/ RlCompare(c)
    \/ RlTick

RateLimitSpec == RlInit /\ [][RateLimitNext]_vars

ReturnedIn(w) ==
    Cardinality({k \in 1..Len(rl.log) : rl.log[k].window = w /\ rl.log[k].outcome = "returned"})

\* C38: for one key and one window at most limit calls return normally and
\* every further call raises "Rate limit exceeded", whatever the
\* interleaving, as long as Redis raises no error; a call on which Redis
\* raises an error returns normally.
C38_AtMostLimitCallsPerWindow ==
    /\ rl.redis_errors = 0 =>
          /\ \A w \in 1..rl.window : ReturnedIn(w) <= rl.limit
          /\ \A k \in 1..Len(rl.log) :
                rl.log[k].outcome = "raised" <=> rl.log[k].current > rl.limit
    /\ \A k \in 1..Len(rl.log) : rl.log[k].redis_error => rl.log[k].outcome = "returned"

\* Without a Redis error, one window has seen limit calls return and a
\* further one raise, and a later window has let a call through again.
C38_Witness ==
    /\ rl.redis_errors = 0 /\ rl.window = 2
    /\ ReturnedIn(1) = rl.limit /\ ReturnedIn(2) = 1
    /\ \E k \in 1..Len(rl.log) : rl.log[k].window = 1 /\ rl.log[k].outcome = "raised"

\* C39: every counter key check_rate_limit creates carries an expiry of
\* window_seconds: whatever the calls and Redis errors, a key without
\* expiry exists only while the call that created it is about to set it.
C39_CounterKeyAlwaysExpires ==
    (rl.counter > 0 /\ rl.expires_at = NoExpiry) =>
        \E c \in RlCallers : rl.pc[c] = "incremented" /\ rl.current[c] = 1

(***************************************************************************)
(* UploadSpec: upload_file (files.py:40-101) and delete_file_record        *)
(* (files.py:104-114) requests on one topic of their owner, each with a    *)
(* database session of its own.  A request awaits the count query, the     *)
(* duplicate query and the commit one after the other, and other requests  *)
(* run in between; the table has no constraint on (topic_id, sha256)       *)
(* (models.py:41-56) and no query takes a lock.  The rate limiter and the  *)
(* validation let the request pass or refuse it.                           *)
(***************************************************************************)
MaxUploads == 3

Uploaders == 1..2
UploadShas == {"x", "y"}
UploadRowIds == 1..MaxUploads

LiveRows == {f \in up.files : ~f.deleted}

UploadInit ==
    /\ up \in [files : {{}},
               max_files_per_topic : {1, 2},
               pc : {[r \in Uploaders |-> "idle"]},
               sha : {[r \in Uploaders |-> "none"]},
               started : {0},
               codes : {<<>>}]
    /\ PipelineIdle
    /\ inv = Idle /\ dd = Idle /\ nq = Idle /\ ps = Idle /\ job = Idle
    /\ web = Idle /\ xj = Idle /\ ix = Idle /\ emb = Idle /\ rl = Idle

\* The request ends with the status code.
UploadAnswer(r, code) ==
    up' = [up EXCEPT !.pc[r] = "idle", !.sha[r] = "none", !.codes = Append(@, code)]

\* files.py:48-63: rate limit, then the count of the topic's live files.
UploadCount(r) ==
    /\ up.pc[r] = "idle" /\ up.started < MaxUploads
    /\ \E limited \in BOOLEAN :
          IF limited
          THEN up' = [up EXCEPT !.started = @ + 1, !.codes = Append(@, 429)]
          ELSE IF Cardinality(LiveRows) >= up.max_files_per_topic
          THEN up' = [up EXCEPT !.started = @ + 1, !.codes = Append(@, 400)]
          ELSE up' = [up EXCEPT !.started = @ + 1, !.pc[r] = "counted"]
    /\ UNCHANGED allButUp

\* files.py:65-82: the content is read, validated and hashed, and the
\* topic's live files are searched for the hash.
UploadDupCheck(r) ==
    /\ up.pc[r] = "counted"
    /\ \E valid \in BOOLEAN, sha \in UploadShas :
          IF ~valid THEN UploadAnswer(r, 400)
          ELSE IF \E f \in LiveRows : f.sha = sha THEN UploadAnswer(r, 400)
          ELSE up' = [up EXCEPT !.pc[r] = "unique", !.sha[r] = sha]
    /\ UNCHANGED allButUp

\* files.py:84-101: the file is stored, the row added and committed.
UploadCommit(r) ==
    /\ up.pc[r] = "unique"
    /\ \E id \in UploadRowIds \ {f.id : f \in up.files} :
          up' = [up EXCEPT !.files = @ \cup {[id |-> id, sha |-> up.sha[r],
                                              deleted |-> FALSE]},
                           !.pc[r] = "idle", !.sha[r] = "none",
                           !.codes = Append(@, 200)]
    /\ UNCHANGED allButUp

\* files.py:104-114: a live file of the topic is marked deleted.
UploadDelete ==
    /\ \E f \in LiveRows :
          up' = [up EXCEPT !.files = (@ \ {f}) \cup {[f EXCEPT !.deleted = TRUE]}]
    /\ UNCHANGED allButUp

UploadNext ==
    \/ \E r \in Uploaders : UploadCount(r) \/ UploadDupCheck(r) \/ UploadCommit(r)
    \/ UploadDelete

UploadSpec == UploadInit /\ [][UploadNext]_vars

\* C40: in every reachable state the topic holds at most max_files_per_topic
\* non-deleted file records and no two of them share a sha256, also when
\* upload_file requests for the topic run concurrently.
C40_FileLimitAndUniqueHashHold ==
    /\ Cardinality(LiveRows) <= up.max_files_per_topic
    /\ \A f \in LiveRows : \A g \in LiveRows : f.sha = g.sha => f = g

FinalStatuses == {"done", "failed", "cancelled"}

\* C37: in every reachable state of a job, status is one of done, failed,
\* cancelled if and only if stage is "done" and progress is 100 (so no write
\* sets a non-final stage or a lower progress on a job whose status is
\* final), and status "done" implies result_paths holds the apkg path.
C37_FinalStatusIffStageDone ==
    /\ job.row.status \in FinalStatuses
          <=> (job.row.stage = "done" /\ job.row.progress = 100)
    /\ job.row.status = "done" => job.row.result_paths = "apkg"

=============================================================================
